---- MODULE Spec2Model ----
(***************************************************************************)
(* trough: the crawl-and-merge pipeline.                                   *)
(*                                                                         *)
(* Three specifications share the persistent store, a fourth follows one   *)
(* scraper goroutine page by page, and small ones cover the two triggers,  *)
(* the parsers, the browser pool and single functions:                     *)
(*   SpecStore  the ListingRepository alone: Upsert and MarkStale calls    *)
(*              with candidates drawn from bounded sets, executed one      *)
(*              statement at a time (each is a single SQL statement);      *)
(*   Spec       the engine: RunSource, RunAll and the river workers, each  *)
(*              with its scraper's producer goroutine and the two          *)
(*              channels, one invocation after another;                    *)
(*   SpecRace   two RunSource runs of the same source in flight at once    *)
(*              (river runs up to two workers);                            *)
(*   SpecScrape one Scrape call of the colly or the rod BizBuySell scraper *)
(*              against a paginated site, with the reader of its two       *)
(*              channels; FairSpecScrape adds the scheduling of the        *)
(*              goroutine and of a reader that has not stopped;            *)
(*   SpecLimit  the on-demand trigger: TriggerRefresh behind its           *)
(*              RateLimiter, for two callers;                              *)
(*   SpecSchedule  the periodic trigger: river's daily job and its worker; *)
(*              FairSpecSchedule adds their scheduling;                    *)
(*   SpecPrice  parsePrice applied to the amount texts of a page;          *)
(*   SpecNavigate  one NavigateWithRetry call;                             *)
(*   SpecPool   Pool.GetPage called by two goroutines;                     *)
(*   SpecParse  the records of one page parsed into listings and sent;     *)
(*   SpecCrawl  the error stream of a colly crawl whose requests fail;     *)
(*   SpecRefresh  from the arguments of a queued job to the options of     *)
(*              the scraper it runs;                                       *)
(*   SpecDrain  one RunSource run up to its return; FairSpecDrain adds the *)
(*              scheduling of its loop and of the scraper's closes.        *)
(***************************************************************************)
EXTENDS Naturals, Integers, Sequences, FiniteSets, TLC

VARIABLES
    listings,     \* table listings: a set of rows
    scrape_jobs,  \* table scrape_jobs: a set of rows
    clock,        \* time.Now()
    hist,         \* SpecStore: the repository calls executed so far, in order
    pc,           \* Spec: position of every run
    loc,          \* Spec: locals of every run (RunSource, Work, RunAll frames)
    chans,        \* Spec: the listings and errors channels of every run
    producer,     \* Spec: the scraper goroutine of every run
    ctxDone,      \* Spec: whether the run's context is cancelled
    audit         \* Spec: history of the statements each run executed

vars == <<listings, scrape_jobs, clock, hist, pc, loc, chans, producer, ctxDone, audit>>

(***************************************************************************)
(* Bounds of the model.                                                    *)
(***************************************************************************)
MaxTime == 2
MaxCalls == 3
NumVariants == 2

(* Values.  Text and numbers scraped from a page are tokens 1..NumVariants; *)
(* the zero value of a Go type (uuid.Nil, time.Time{}, "", nil) is 0.       *)
NULL == 0
UuidNil == 0
ZeroTime == 0
Variants == 1..NumVariants
SourceIds == {1, 2}
ExternalIds == {1, 2}
Countries == {"US", "CA"}
Times == 1..MaxTime

(***************************************************************************)
(* domain.Listing as a scraper fills it from one page fragment whose       *)
(* contents are the token v.  Optional (pointer) fields are nil for the    *)
(* first token, flags are set for the second.                              *)
(***************************************************************************)
Opt(v) == IF v = 1 THEN NULL ELSE v

Listing(id, ext, v, country) ==
    [ID |-> id, SourceID |-> UuidNil, ExternalID |-> ext, URL |-> v,
     Title |-> v, Description |-> v,
     AskingPrice |-> Opt(v), Revenue |-> Opt(v), CashFlow |-> Opt(v),
     EBITDA |-> Opt(v), Inventory |-> Opt(v),
     RealEstateIncluded |-> (v = 2), RealEstateValue |-> Opt(v),
     City |-> v, State |-> v, ZipCode |-> v, Country |-> country,
     Lat |-> Opt(v), Lng |-> Opt(v),
     Industry |-> v, IndustryCategory |-> v, BusinessType |-> v,
     YearEstablished |-> Opt(v), Employees |-> Opt(v), ReasonForSale |-> v,
     LeaseExpiration |-> Opt(v), MonthlyRent |-> Opt(v),
     IsFranchise |-> (v = 2), FranchiseName |-> v,
     RawData |-> v,
     FirstSeenAt |-> ZeroTime, LastSeenAt |-> ZeroTime, IsActive |-> TRUE]

(***************************************************************************)
(* The listings table.                                                     *)
(***************************************************************************)
\* BEFORE INSERT OR UPDATE trigger: the search vector is rebuilt from the
\* row's own columns; the tsvector is kept as the sequence of its inputs.
listings_search_vector_update(row) ==
    [row EXCEPT !.search_vector =
        <<row.title, row.description, row.industry, row.city, row.state>>]

\* INSERT INTO listings (...) VALUES ($1 .. $33, to_tsvector(...))
InsertRow(l) ==
    listings_search_vector_update(
    [id |-> l.ID, source_id |-> l.SourceID, external_id |-> l.ExternalID,
     url |-> l.URL, title |-> l.Title, description |-> l.Description,
     asking_price |-> l.AskingPrice, revenue |-> l.Revenue,
     cash_flow |-> l.CashFlow, ebitda |-> l.EBITDA,
     inventory_value |-> l.Inventory,
     real_estate_included |-> l.RealEstateIncluded,
     real_estate_value |-> l.RealEstateValue,
     city |-> l.City, state |-> l.State, zip_code |-> l.ZipCode,
     country |-> l.Country, lat |-> l.Lat, lng |-> l.Lng,
     industry |-> l.Industry, industry_category |-> l.IndustryCategory,
     business_type |-> l.BusinessType,
     year_established |-> l.YearEstablished, employees |-> l.Employees,
     reason_for_sale |-> l.ReasonForSale,
     lease_expiration |-> l.LeaseExpiration, monthly_rent |-> l.MonthlyRent,
     is_franchise |-> l.IsFranchise, franchise_name |-> l.FranchiseName,
     raw_data |-> l.RawData,
     first_seen_at |-> l.FirstSeenAt, last_seen_at |-> l.LastSeenAt,
     is_active |-> l.IsActive,
     search_vector |-> <<l.Title, l.Description, l.Industry>>])

\* ON CONFLICT (source_id, external_id) DO UPDATE SET ... with last_seen_at
\* left out of the SET list.
ConflictUpdateKeepLastSeen(row, l) ==
    listings_search_vector_update(
    [row EXCEPT
        !.url = l.URL, !.title = l.Title, !.description = l.Description,
        !.asking_price = l.AskingPrice, !.revenue = l.Revenue,
        !.cash_flow = l.CashFlow, !.ebitda = l.EBITDA,
        !.inventory_value = l.Inventory,
        !.real_estate_included = l.RealEstateIncluded,
        !.real_estate_value = l.RealEstateValue,
        !.city = l.City, !.state = l.State, !.zip_code = l.ZipCode,
        !.lat = l.Lat, !.lng = l.Lng,
        !.industry = l.Industry, !.industry_category = l.IndustryCategory,
        !.business_type = l.BusinessType,
        !.year_established = l.YearEstablished, !.employees = l.Employees,
        !.reason_for_sale = l.ReasonForSale,
        !.lease_expiration = l.LeaseExpiration,
        !.monthly_rent = l.MonthlyRent,
        !.is_franchise = l.IsFranchise, !.franchise_name = l.FranchiseName,
        !.raw_data = l.RawData,
        !.is_active = TRUE,
        !.search_vector = <<l.Title, l.Description, l.Industry>>])

\* ON CONFLICT ... DO UPDATE SET ... that also overwrites id and first_seen_at
\* with the candidate's.
ConflictUpdateOverwriteIdentity(row, l) ==
    listings_search_vector_update(
    [InsertRow(l) EXCEPT !.country = row.country, !.is_active = TRUE])

\* ON CONFLICT (source_id, external_id) DO UPDATE SET ... with title left
\* out of the SET list: the row keeps the title of an earlier writer.
ConflictUpdateKeepTitle(row, l) ==
    listings_search_vector_update(
    [ConflictUpdateKeepLastSeen(row, l) EXCEPT
        !.title = row.title, !.last_seen_at = l.LastSeenAt])

\* ON CONFLICT (source_id, external_id) DO UPDATE SET col = EXCLUDED.col, ...
\* The SET list names neither id, source_id, external_id, country nor
\* first_seen_at: those keep the stored row's values.
ConflictUpdate(row, l) ==
    listings_search_vector_update(
    [row EXCEPT
        !.url = l.URL, !.title = l.Title, !.description = l.Description,
        !.asking_price = l.AskingPrice, !.revenue = l.Revenue,
        !.cash_flow = l.CashFlow, !.ebitda = l.EBITDA,
        !.inventory_value = l.Inventory,
        !.real_estate_included = l.RealEstateIncluded,
        !.real_estate_value = l.RealEstateValue,
        !.city = l.City, !.state = l.State, !.zip_code = l.ZipCode,
        !.lat = l.Lat, !.lng = l.Lng,
        !.industry = l.Industry, !.industry_category = l.IndustryCategory,
        !.business_type = l.BusinessType,
        !.year_established = l.YearEstablished, !.employees = l.Employees,
        !.reason_for_sale = l.ReasonForSale,
        !.lease_expiration = l.LeaseExpiration,
        !.monthly_rent = l.MonthlyRent,
        !.is_franchise = l.IsFranchise, !.franchise_name = l.FranchiseName,
        !.raw_data = l.RawData,
        !.last_seen_at = l.LastSeenAt,
        !.is_active = TRUE,
        !.search_vector = <<l.Title, l.Description, l.Industry>>])

\* The rows of `rows` that hold the key (source_id, external_id).
RowsOf(rows, src, ext) ==
    {row \in rows : row.source_id = src /\ row.external_id = ext}

\* The statement without its ON CONFLICT clause on a table without the
\* UNIQUE(source_id, external_id) constraint: every call inserts.
UpsertAlwaysInsert(rows, l) ==
    rows \cup {InsertRow(l)}

\* ListingRepository.Upsert: one INSERT ... ON CONFLICT DO UPDATE statement,
\* the table after it.
Upsert(rows, l) ==
    LET hit == RowsOf(rows, l.SourceID, l.ExternalID)
    IN  IF hit = {}
        THEN rows \cup {InsertRow(l)}
        ELSE (rows \ hit) \cup {ConflictUpdate(row, l) : row \in hit}

\* The WHERE clause without its source_id = $1 term.
StaleRowsAnySource(rows, sourceID, beforeTime) ==
    {row \in rows : /\ row.last_seen_at < beforeTime
                    /\ row.is_active = TRUE}

\* The rows an UPDATE ... WHERE source_id = $1 AND last_seen_at < $2 AND
\* is_active = true matches.
StaleRows(rows, sourceID, beforeTime) ==
    {row \in rows : /\ row.source_id = sourceID
                    /\ row.last_seen_at < beforeTime
                    /\ row.is_active = TRUE}

\* ListingRepository.MarkStale: the table after the UPDATE (the row trigger
\* runs on every updated row).
MarkStale(rows, sourceID, beforeTime) ==
    LET hit == StaleRows(rows, sourceID, beforeTime)
    IN  (rows \ hit)
          \cup {listings_search_vector_update([row EXCEPT !.is_active = FALSE]) :
                   row \in hit}

(***************************************************************************)
(* SpecStore: the repository under arbitrary callers.                      *)
(***************************************************************************)
\* A candidate as RunSource hands it to Upsert: the scraper's listing with
\* source and observation time stamped; first_seen_at is either stamped with
\* the observation or left at its zero value.
Candidate(id, src, ext, v, country, seen, stampFirst) ==
    [Listing(id, ext, v, country) EXCEPT
        !.SourceID = src,
        !.LastSeenAt = seen,
        !.FirstSeenAt = IF stampFirst THEN seen ELSE ZeroTime]

StoreUpsert ==
    /\ Len(hist) < MaxCalls
    /\ \E src \in SourceIds, ext \in ExternalIds, v \in Variants,
          country \in Countries, seen \in 1..clock, stampFirst \in BOOLEAN :
          LET l == Candidate(Len(hist) + 1, src, ext, v, country, seen, stampFirst)
          IN  /\ listings' = Upsert(listings, l)
              /\ hist' = Append(hist,
                    [op |-> "upsert", l |-> l,
                     before |-> RowsOf(listings, src, ext),
                     after |-> RowsOf(listings', src, ext)])
    /\ UNCHANGED <<scrape_jobs, clock, pc, loc, chans, producer, ctxDone, audit>>

StoreMarkStale ==
    /\ Len(hist) < MaxCalls
    /\ \E src \in SourceIds, beforeTime \in Times :
          /\ listings' = MarkStale(listings, src, beforeTime)
          /\ hist' = Append(hist,
                [op |-> "stale", source |-> src, beforeTime |-> beforeTime,
                 affected |-> Cardinality(StaleRows(listings, src, beforeTime))])
    /\ UNCHANGED <<scrape_jobs, clock, pc, loc, chans, producer, ctxDone, audit>>

\* Time passes.
Tick ==
    /\ clock < MaxTime
    /\ clock' = clock + 1
    /\ UNCHANGED <<listings, scrape_jobs, hist, pc, loc, chans, producer, ctxDone, audit>>

InitStore ==
    /\ listings = {}
    /\ scrape_jobs = {}
    /\ clock = 1
    /\ hist = <<>>
    /\ pc = <<>>
    /\ loc = <<>>
    /\ chans = <<>>
    /\ producer = <<>>
    /\ ctxDone = <<>>
    /\ audit = <<>>

NextStore == StoreUpsert \/ StoreMarkStale \/ Tick

SpecStore == InitStore /\ [][NextStore]_vars

(***************************************************************************)
(* The engine: sources, scrape jobs, runs.                                 *)
(***************************************************************************)
NumRuns == 2
MaxEmit == 2
MaxErrors == 1
MaxDbFaults == 1
MaxInvocations == 2
UuidsPerRun == 8
ListingsCap == 100
ErrorsCap == 10

Runs == 1..NumRuns

\* Table sources in ListActive's order (ORDER BY name).  The seeded source
\* has a registered scraper; the second was added by an operator and has
\* none; the third has been deactivated.
Sources ==
    <<[ID |-> 1, Slug |-> "bizbuysell", IsActive |-> TRUE],
      [ID |-> 2, Slug |-> "newsite", IsActive |-> TRUE],
      [ID |-> 3, Slug |-> "oldsite", IsActive |-> FALSE]>>

\* Engine.scrapers after the RegisterScraper calls of main.
Scrapers == {"bizbuysell"}

\* The slugs a caller may pass; the last one is no row of sources.
Slugs == {"bizbuysell", "newsite", "ghost"}

\* The max-listings values a caller may pass.
Limits == {0, 1}

NoError == "nil"
NullText == "NULL"

\* uuid.New(): unique tokens, drawn by run r's own frames (side 0) or by its
\* scraper goroutine (side 1).
Uuid(r, side, n) == ((r * 2) + side) * UuidsPerRun + n

\* SELECT * FROM sources WHERE slug = $1
SourceBySlug(slug) == {Sources[i] : i \in {j \in 1..Len(Sources) : Sources[j].Slug = slug}}

\* SELECT * FROM sources WHERE is_active = true ORDER BY name
ListActive == SelectSeq(Sources, LAMBDA src : src.IsActive)

\* The outcomes of a statement executed with run r's context: ExecContext
\* fails on a cancelled context, and may fail for the database's own reasons
\* (at most MaxDbFaults times in a behaviour).
DbOutcomes(r) ==
    IF ctxDone[r] THEN {FALSE}
    ELSE IF audit.nfaults < MaxDbFaults THEN BOOLEAN
    ELSE {TRUE}

\* The audit after run r executed a statement with outcome ok.
Audited(r, ok) ==
    [audit EXCEPT !.dbFailed[r] = @ \/ ~ok,
                  !.nfaults = IF ~ok /\ ~ctxDone[r] THEN @ + 1 ELSE @]

\* domain.ScrapeJob as RunSource and Work build it.
NewScrapeJob(id, sourceID, now) ==
    [ID |-> id, SourceID |-> sourceID, Status |-> "running",
     StartedAt |-> now, CompletedAt |-> ZeroTime,
     ListingsFound |-> 0, ListingsNew |-> 0, ListingsUpdated |-> 0,
     ErrorMessage |-> "", CreatedAt |-> now]

NoJob == NewScrapeJob(UuidNil, UuidNil, ZeroTime)

\* INSERT INTO scrape_jobs (id, source_id, status, created_at): the other
\* columns take their defaults.
CreateScrapeJob(jobs, job) ==
    jobs \cup {[id |-> job.ID, source_id |-> job.SourceID, status |-> job.Status,
                started_at |-> ZeroTime, completed_at |-> ZeroTime,
                listings_found |-> 0, listings_new |-> 0, listings_updated |-> 0,
                error_message |-> NullText, created_at |-> job.CreatedAt]}

\* The UPDATE applied to one row.
JobRowUpdated(row, job) ==
    [row EXCEPT
        !.status = job.Status,
        !.started_at = job.StartedAt,
        !.completed_at = job.CompletedAt,
        !.listings_found = job.ListingsFound,
        !.listings_new = job.ListingsNew,
        !.listings_updated = job.ListingsUpdated,
        !.error_message = job.ErrorMessage]

\* UPDATE scrape_jobs SET ... WHERE source_id = $1: every record of the
\* job's source is rewritten.
UpdateScrapeJobBySource(jobs, job) ==
    {IF row.source_id = job.SourceID THEN JobRowUpdated(row, job) ELSE row : row \in jobs}

\* UPDATE scrape_jobs SET status = $2, ... WHERE id = $1
UpdateScrapeJob(jobs, job) ==
    {IF row.id = job.ID THEN JobRowUpdated(row, job) ELSE row : row \in jobs}

EmptyChans ==
    [listings |-> <<>>, listingsClosed |-> FALSE,
     errors |-> <<>>, errorsClosed |-> FALSE]

IdleProducer ==
    [pc |-> "idle", opts |-> [FullScrape |-> FALSE, MaxListings |-> 0],
     count |-> 0, nuuid |-> 0, fatal |-> FALSE]

\* The frame of a run before it starts.
IdleLoc ==
    [kind |-> "none", slug |-> "", limit |-> 0, nuuid |-> 0,
     source |-> UuidNil, job |-> NoJob,
     found |-> 0, created |-> 0, updated |-> 0, unseen |-> 0,
     upsertFailed |-> FALSE, ran |-> <<>>,
     listing |-> Listing(UuidNil, 0, 1, "US"),
     wsource |-> UuidNil, wjob |-> NoJob,
     sources |-> <<>>, idx |-> 0,
     err |-> NoError]

NoAudit ==
    [last |-> {}, inserted |-> [r \in Runs |-> {}], updated |-> [r \in Runs |-> <<>>],
     scrapes |-> [r \in Runs |-> 0], dbFailed |-> [r \in Runs |-> FALSE],
     nfaults |-> 0, nemitted |-> 0, nerrors |-> 0, invocations |-> 0]

Init ==
    /\ listings = {}
    /\ scrape_jobs = {}
    /\ clock = 1
    /\ hist = <<>>
    /\ pc = [r \in Runs |-> "idle"]
    /\ loc = [r \in Runs |-> IdleLoc]
    /\ chans = [r \in Runs |-> EmptyChans]
    /\ producer = [r \in Runs |-> IdleProducer]
    /\ ctxDone = [r \in Runs |-> FALSE]
    /\ audit = NoAudit

\* Spec drives one invocation at a time, in the first slot, which is free
\* again once the previous invocation has returned.
Free(r) ==
    /\ r = 1
    /\ pc[r] \in {"idle", "returned"}
    /\ audit.invocations < MaxInvocations

\* The frame, channels, goroutine and context of a new invocation in slot r;
\* the uuids drawn so far are not drawn again.
Invoked(r, kind, slug, limit, at) ==
    /\ loc' = [loc EXCEPT ![r] =
          [IdleLoc EXCEPT !.kind = kind, !.slug = slug, !.limit = limit,
                          !.nuuid = loc[r].nuuid]]
    /\ pc' = [pc EXCEPT ![r] = at]
    /\ chans' = [chans EXCEPT ![r] = EmptyChans]
    /\ producer' = [producer EXCEPT ![r] = [IdleProducer EXCEPT !.nuuid = producer[r].nuuid]]
    /\ ctxDone' = [ctxDone EXCEPT ![r] = FALSE]
    /\ audit' = [audit EXCEPT
          !.invocations = @ + 1,
          !.inserted[r] = {}, !.updated[r] = <<>>, !.scrapes[r] = 0,
          !.dbFailed[r] = FALSE]

\* `scrape run --source slug --limit n`: RunSource on a background context.
StartDirect(r) ==
    /\ Free(r)
    /\ \E slug \in Slugs, limit \in Limits : Invoked(r, "direct", slug, limit, "rs_get")
    /\ UNCHANGED <<listings, scrape_jobs, clock, hist>>

\* river delivers a "scrape" job to ScrapeJobWorker.Work.
StartWorker(r) ==
    /\ Free(r)
    /\ \E slug \in Slugs, limit \in Limits : Invoked(r, "worker", slug, limit, "w_get")
    /\ UNCHANGED <<listings, scrape_jobs, clock, hist>>

\* river delivers a "scrape_all" job to ScrapeAllJobWorker.Work: RunAll.
StartAll(r) ==
    /\ Free(r)
    /\ Invoked(r, "all", "", 0, "ra_list")
    /\ UNCHANGED <<listings, scrape_jobs, clock, hist>>

\* The run's context is cancelled (river's job timeout or shutdown).
Cancel(r) ==
    /\ loc[r].kind \in {"worker", "all"}
    /\ pc[r] # "returned"
    /\ ~ctxDone[r]
    /\ ctxDone' = [ctxDone EXCEPT ![r] = TRUE]
    /\ UNCHANGED <<listings, scrape_jobs, clock, hist, pc, loc, chans, producer, audit>>

\* Two candidates carry the same (source_id, external_id).
SameListingKey(l1, l2) == l1.SourceID = l2.SourceID /\ l1.ExternalID = l2.ExternalID

\* Where RunSource's caller continues when RunSource returns err.
ReturnPc(kind) ==
    CASE kind = "worker" -> "w_update"
      [] kind = "all" -> "ra_next"
      [] OTHER -> "returned"

(***************************************************************************)
(* Engine.RunSource                                                        *)
(***************************************************************************)
\* GetBySlug, then the job record is inserted before the lookup in
\* e.scrapers: a slug without a scraper leaves a record behind.
RunSourceResolveJobFirst(r) ==
    /\ pc[r] = "rs_get"
    /\ \E ok \in DbOutcomes(r) :
          LET found == SourceBySlug(loc[r].slug)
              err == IF ~ok \/ found = {} THEN "source not found"
                     ELSE IF loc[r].slug \notin Scrapers THEN "no scraper registered"
                     ELSE NoError
          IN  /\ loc' = [loc EXCEPT ![r] =
                    IF err = NoError
                    THEN [@ EXCEPT !.source = (CHOOSE src \in found : TRUE).ID,
                                   !.job = NoJob, !.err = NoError,
                                   !.found = 0, !.created = 0, !.updated = 0, !.unseen = 0,
                                   !.upsertFailed = FALSE]
                    ELSE [@ EXCEPT !.err = err, !.job = NoJob,
                                   !.ran = Append(@, [slug |-> loc[r].slug, err |-> err])]]
              /\ scrape_jobs' =
                    IF ok /\ found # {}
                    THEN CreateScrapeJob(scrape_jobs,
                            NewScrapeJob(Uuid(r, 0, loc[r].nuuid + 1),
                                         (CHOOSE src \in found : TRUE).ID, clock))
                    ELSE scrape_jobs
              /\ pc' = [pc EXCEPT ![r] =
                    IF err = NoError THEN "rs_create" ELSE ReturnPc(loc[r].kind)]
              /\ audit' = Audited(r, ok)
    /\ UNCHANGED <<listings, clock, hist, chans, producer, ctxDone>>

\* GetBySlug, then the lookup in e.scrapers: either failure returns an error
\* before any job record exists.
RunSourceResolve(r) ==
    /\ pc[r] = "rs_get"
    /\ \E ok \in DbOutcomes(r) :
          LET found == SourceBySlug(loc[r].slug)
              err == IF ~ok \/ found = {} THEN "source not found"
                     ELSE IF loc[r].slug \notin Scrapers THEN "no scraper registered"
                     ELSE NoError
          IN  /\ loc' = [loc EXCEPT ![r] =
                    IF err = NoError
                    THEN [@ EXCEPT !.source = (CHOOSE src \in found : TRUE).ID,
                                   !.job = NoJob, !.err = NoError,
                                   !.found = 0, !.created = 0, !.updated = 0, !.unseen = 0,
                                   !.upsertFailed = FALSE]
                    ELSE [@ EXCEPT !.err = err, !.job = NoJob,
                                   !.ran = Append(@, [slug |-> loc[r].slug, err |-> err])]]
              /\ pc' = [pc EXCEPT ![r] =
                    IF err = NoError THEN "rs_create" ELSE ReturnPc(loc[r].kind)]
              /\ audit' = Audited(r, ok)
    /\ UNCHANGED <<listings, scrape_jobs, clock, hist, chans, producer, ctxDone>>

\* The job record is built and inserted (a failed insert is only logged),
\* then scraper.Scrape starts the producer goroutine on fresh channels.
RunSourceCreateJob(r) ==
    /\ pc[r] = "rs_create"
    /\ \E ok \in DbOutcomes(r) :
          LET job == NewScrapeJob(Uuid(r, 0, loc[r].nuuid + 1), loc[r].source, clock)
          IN  /\ scrape_jobs' = IF ok THEN CreateScrapeJob(scrape_jobs, job) ELSE scrape_jobs
              /\ loc' = [loc EXCEPT ![r] = [@ EXCEPT !.job = job, !.nuuid = @ + 1]]
              /\ audit' = [Audited(r, ok) EXCEPT
                    !.inserted[r] = IF ok THEN @ \cup {job.ID} ELSE @,
                    !.scrapes[r] = @ + 1]
    /\ chans' = [chans EXCEPT ![r] = EmptyChans]
    /\ producer' = [producer EXCEPT ![r] =
          [IdleProducer EXCEPT
              !.pc = "crawl",
              !.opts = [FullScrape |-> TRUE, MaxListings |-> loc[r].limit],
              !.nuuid = producer[r].nuuid]]
    /\ pc' = [pc EXCEPT ![r] = "rs_loop"]
    /\ UNCHANGED <<listings, clock, hist, ctxDone>>

\* case listing, ok := <-listings with a listing: count it, stamp it, and
\* classify it by its ID.
RunSourceReceive(r) ==
    /\ pc[r] = "rs_loop"
    /\ chans[r].listings # <<>>
    /\ LET l == Head(chans[r].listings)
           isNew == l.ID = UuidNil
           stamped == [l EXCEPT
              !.SourceID = loc[r].source,
              !.LastSeenAt = clock,
              !.ID = IF isNew THEN Uuid(r, 0, loc[r].nuuid + 1) ELSE @,
              !.FirstSeenAt = IF isNew THEN clock ELSE @]
       IN  loc' = [loc EXCEPT ![r] = [@ EXCEPT
              !.found = @ + 1,
              !.created = IF isNew THEN @ + 1 ELSE @,
              !.updated = IF isNew THEN @ ELSE @ + 1,
              !.nuuid = IF isNew THEN @ + 1 ELSE @,
              !.unseen = IF RowsOf(listings, loc[r].source, l.ExternalID) = {}
                         THEN @ + 1 ELSE @,
              !.listing = stamped]]
    /\ chans' = [chans EXCEPT ![r].listings = Tail(@)]
    /\ pc' = [pc EXCEPT ![r] = "rs_upsert"]
    /\ UNCHANGED <<listings, scrape_jobs, clock, hist, producer, ctxDone, audit>>

\* The Upsert step of a loop that counts only the listings it stored: a
\* failed Upsert takes the listing out of the counters again.
RunSourceUpsertUncountFailed(r) ==
    /\ pc[r] = "rs_upsert"
    /\ \E ok \in DbOutcomes(r) :
          /\ listings' = IF ok THEN Upsert(listings, loc[r].listing) ELSE listings
          /\ audit' = [Audited(r, ok) EXCEPT
                !.last = IF ok
                         THEN {e \in @ : ~SameListingKey(e.l, loc[r].listing)}
                              \cup {[l |-> loc[r].listing, by |-> r,
                                     writers |-> {r} \cup UNION {e.writers : e \in
                                        {x \in @ : SameListingKey(x.l, loc[r].listing)}}]}
                         ELSE @]
          /\ loc' = [loc EXCEPT ![r].upsertFailed = @ \/ ~ok,
                                ![r].found = IF ok THEN @ ELSE @ - 1]
    /\ pc' = [pc EXCEPT ![r] = "rs_loop"]
    /\ UNCHANGED <<scrape_jobs, clock, hist, chans, producer, ctxDone>>

\* e.listingRepo.Upsert(ctx, listing); an error is only logged.
RunSourceUpsert(r) ==
    /\ pc[r] = "rs_upsert"
    /\ \E ok \in DbOutcomes(r) :
          /\ listings' = IF ok THEN Upsert(listings, loc[r].listing) ELSE listings
          /\ audit' = [Audited(r, ok) EXCEPT
                !.last = IF ok
                         THEN {e \in @ : ~SameListingKey(e.l, loc[r].listing)}
                              \cup {[l |-> loc[r].listing, by |-> r,
                                     writers |-> {r} \cup UNION {e.writers : e \in
                                        {x \in @ : SameListingKey(x.l, loc[r].listing)}}]}
                         ELSE @]
          /\ loc' = [loc EXCEPT ![r].upsertFailed = @ \/ ~ok]
    /\ pc' = [pc EXCEPT ![r] = "rs_loop"]
    /\ UNCHANGED <<scrape_jobs, clock, hist, chans, producer, ctxDone>>

\* case err, ok := <-errors with an error: it is logged.
RunSourceReceiveError(r) ==
    /\ pc[r] = "rs_loop"
    /\ chans[r].errors # <<>>
    /\ chans' = [chans EXCEPT ![r].errors = Tail(@)]
    /\ UNCHANGED <<listings, scrape_jobs, clock, hist, pc, loc, producer, ctxDone, audit>>

\* The loop with a select that takes the errors case whenever it is ready:
\* the closed listing stream is noticed only while the error stream is open
\* and empty.
RunSourceFinalizeErrorsFirst(r) ==
    /\ pc[r] = "rs_loop"
    /\ chans[r].listings = <<>>
    /\ chans[r].listingsClosed
    /\ ~chans[r].errorsClosed
    /\ chans[r].errors = <<>>
    /\ \E ok \in DbOutcomes(r) :
          LET job == [loc[r].job EXCEPT
                        !.Status = "completed",
                        !.CompletedAt = clock,
                        !.ListingsFound = loc[r].found,
                        !.ListingsNew = loc[r].created,
                        !.ListingsUpdated = loc[r].updated]
          IN  /\ scrape_jobs' = IF ok THEN UpdateScrapeJob(scrape_jobs, job) ELSE scrape_jobs
              /\ loc' = [loc EXCEPT ![r] = [@ EXCEPT !.job = job, !.err = NoError,
                    !.ran = Append(@, [slug |-> loc[r].slug, err |-> NoError])]]
              /\ audit' = [Audited(r, ok) EXCEPT
                    !.updated[r] = IF ok /\ job.ID \in {row.id : row \in scrape_jobs}
                                   THEN Append(@, job.ID) ELSE @]
    /\ pc' = [pc EXCEPT ![r] = ReturnPc(loc[r].kind)]
    /\ UNCHANGED <<listings, clock, hist, chans, producer, ctxDone>>

\* The listings channel is closed and drained: goto done.  The job is set
\* to completed with the counters and updated (a failed update is only
\* logged); RunSource returns nil.
RunSourceFinalize(r) ==
    /\ pc[r] = "rs_loop"
    /\ chans[r].listings = <<>>
    /\ chans[r].listingsClosed
    /\ \E ok \in DbOutcomes(r) :
          LET job == [loc[r].job EXCEPT
                        !.Status = "completed",
                        !.CompletedAt = clock,
                        !.ListingsFound = loc[r].found,
                        !.ListingsNew = loc[r].created,
                        !.ListingsUpdated = loc[r].updated]
          IN  /\ scrape_jobs' = IF ok THEN UpdateScrapeJob(scrape_jobs, job) ELSE scrape_jobs
              /\ loc' = [loc EXCEPT ![r] = [@ EXCEPT !.job = job, !.err = NoError,
                    !.ran = Append(@, [slug |-> loc[r].slug, err |-> NoError])]]
              /\ audit' = [Audited(r, ok) EXCEPT
                    !.updated[r] = IF ok /\ job.ID \in {row.id : row \in scrape_jobs}
                                   THEN Append(@, job.ID) ELSE @]
    /\ pc' = [pc EXCEPT ![r] = ReturnPc(loc[r].kind)]
    /\ UNCHANGED <<listings, clock, hist, chans, producer, ctxDone>>

(***************************************************************************)
(* ScrapeJobWorker.Work and Engine.RunAll                                  *)
(***************************************************************************)
\* Work: GetBySlug; a failure returns before any record is written.
WorkResolve(r) ==
    /\ pc[r] = "w_get"
    /\ \E ok \in DbOutcomes(r) :
          LET found == SourceBySlug(loc[r].slug)
          IN  /\ loc' = [loc EXCEPT ![r] =
                    IF ok /\ found # {}
                    THEN [@ EXCEPT !.wsource = (CHOOSE src \in found : TRUE).ID]
                    ELSE [@ EXCEPT !.err = "source not found"]]
              /\ pc' = [pc EXCEPT ![r] = IF ok /\ found # {} THEN "w_create" ELSE "returned"]
              /\ audit' = Audited(r, ok)
    /\ UNCHANGED <<listings, scrape_jobs, clock, hist, chans, producer, ctxDone>>

\* Work: its own scrape job record is built and inserted, then RunSource
\* is called.
WorkCreateJob(r) ==
    /\ pc[r] = "w_create"
    /\ \E ok \in DbOutcomes(r) :
          LET job == NewScrapeJob(Uuid(r, 0, loc[r].nuuid + 1), loc[r].wsource, clock)
          IN  /\ scrape_jobs' = IF ok THEN CreateScrapeJob(scrape_jobs, job) ELSE scrape_jobs
              /\ loc' = [loc EXCEPT ![r] = [@ EXCEPT !.wjob = job, !.nuuid = @ + 1]]
              /\ audit' = [Audited(r, ok) EXCEPT
                    !.inserted[r] = IF ok THEN @ \cup {job.ID} ELSE @]
    /\ pc' = [pc EXCEPT ![r] = "rs_get"]
    /\ UNCHANGED <<listings, clock, hist, chans, producer, ctxDone>>

\* Work, after RunSource returned err: the record becomes failed with the
\* error's text, or completed; Work returns err.
WorkFinish(r) ==
    /\ pc[r] = "w_update"
    /\ \E ok \in DbOutcomes(r) :
          LET job == [loc[r].wjob EXCEPT
                        !.CompletedAt = clock,
                        !.Status = IF loc[r].err # NoError THEN "failed" ELSE "completed",
                        !.ErrorMessage = IF loc[r].err # NoError THEN loc[r].err ELSE @]
          IN  /\ scrape_jobs' = IF ok THEN UpdateScrapeJob(scrape_jobs, job) ELSE scrape_jobs
              /\ loc' = [loc EXCEPT ![r] = [@ EXCEPT !.wjob = job]]
              /\ audit' = [Audited(r, ok) EXCEPT
                    !.updated[r] = IF ok /\ job.ID \in {row.id : row \in scrape_jobs}
                                   THEN Append(@, job.ID) ELSE @]
    /\ pc' = [pc EXCEPT ![r] = "returned"]
    /\ UNCHANGED <<listings, clock, hist, chans, producer, ctxDone>>

\* RunAll: ListActive; its failure is the only error RunAll returns.
RunAllList(r) ==
    /\ pc[r] = "ra_list"
    /\ \E ok \in DbOutcomes(r) :
          /\ loc' = [loc EXCEPT ![r] =
                IF ok THEN [@ EXCEPT !.sources = ListActive, !.idx = 1]
                ELSE [@ EXCEPT !.err = "failed to list sources"]]
          /\ pc' = [pc EXCEPT ![r] = IF ok THEN "ra_next" ELSE "returned"]
          /\ audit' = Audited(r, ok)
    /\ UNCHANGED <<listings, scrape_jobs, clock, hist, chans, producer, ctxDone>>

\* RunAll's loop with `return err` where the error is logged: the first
\* failed source ends RunAll.
RunAllNextStopOnError(r) ==
    /\ pc[r] = "ra_next"
    /\ IF loc[r].err # NoError
       THEN /\ pc' = [pc EXCEPT ![r] = "returned"]
            /\ loc' = loc
       ELSE IF loc[r].idx <= Len(loc[r].sources)
       THEN /\ loc' = [loc EXCEPT ![r] = [@ EXCEPT
                  !.slug = loc[r].sources[loc[r].idx].Slug,
                  !.limit = 0,
                  !.idx = @ + 1]]
            /\ pc' = [pc EXCEPT ![r] = "rs_get"]
       ELSE /\ loc' = [loc EXCEPT ![r] = [@ EXCEPT !.err = NoError]]
            /\ pc' = [pc EXCEPT ![r] = "returned"]
    /\ UNCHANGED <<listings, scrape_jobs, clock, hist, chans, producer, ctxDone, audit>>

\* RunAll's loop: the previous source's error, if any, was logged; the next
\* source is run with limit 0, or RunAll returns nil.
RunAllNext(r) ==
    /\ pc[r] = "ra_next"
    /\ IF loc[r].idx <= Len(loc[r].sources)
       THEN /\ loc' = [loc EXCEPT ![r] = [@ EXCEPT
                  !.slug = loc[r].sources[loc[r].idx].Slug,
                  !.limit = 0,
                  !.idx = @ + 1]]
            /\ pc' = [pc EXCEPT ![r] = "rs_get"]
       ELSE /\ loc' = [loc EXCEPT ![r] = [@ EXCEPT !.err = NoError]]
            /\ pc' = [pc EXCEPT ![r] = "returned"]
    /\ UNCHANGED <<listings, scrape_jobs, clock, hist, chans, producer, ctxDone, audit>>

(***************************************************************************)
(* Scraper.Scrape: the producer goroutine of the static (colly) scrapers.  *)
(***************************************************************************)
\* What the site shows to the crawl of run r: its pages differ from one
\* invocation to the next and between two crawls in flight.
SiteVersion(r) == ((r + audit.invocations) % NumVariants) + 1

\* A listing card handler: parse succeeded, the cap is not reached, and the
\* select's send case is taken.
ScrapeEmit(r) ==
    /\ producer[r].pc = "crawl"
    /\ audit.nemitted < MaxEmit
    /\ ~(producer[r].opts.MaxListings > 0 /\ producer[r].count >= producer[r].opts.MaxListings)
    /\ Len(chans[r].listings) < ListingsCap
    /\ \E ext \in ExternalIds :
          chans' = [chans EXCEPT ![r].listings =
              Append(@, Listing(Uuid(r, 1, producer[r].nuuid + 1), ext, SiteVersion(r), "US"))]
    /\ producer' = [producer EXCEPT ![r] = [@ EXCEPT !.count = @ + 1, !.nuuid = @ + 1]]
    /\ audit' = [audit EXCEPT !.nemitted = @ + 1]
    /\ UNCHANGED <<listings, scrape_jobs, clock, hist, pc, loc, ctxDone>>

\* c.OnError: a non-blocking send; the error is dropped when the buffer is full.
ScrapeRequestError(r) ==
    /\ producer[r].pc = "crawl"
    /\ audit.nerrors < MaxErrors
    /\ chans' = [chans EXCEPT ![r].errors =
          IF Len(@) < ErrorsCap THEN Append(@, "request error") ELSE @]
    /\ audit' = [audit EXCEPT !.nerrors = @ + 1]
    /\ UNCHANGED <<listings, scrape_jobs, clock, hist, pc, loc, producer, ctxDone>>

\* A fatal error: the entry page is unreachable (before any listing), or a
\* later page is unreachable or blocked (browser scraper).  The error is
\* sent with a blocking send and the goroutine unwinds.
ScrapeFatal(r) ==
    /\ producer[r].pc = "crawl"
    /\ audit.nerrors < MaxErrors
    /\ Len(chans[r].errors) < ErrorsCap
    /\ chans' = [chans EXCEPT ![r].errors = Append(@, "fatal error")]
    /\ producer' = [producer EXCEPT ![r] = [@ EXCEPT !.pc = "failed", !.fatal = TRUE]]
    /\ audit' = [audit EXCEPT !.nerrors = @ + 1]
    /\ UNCHANGED <<listings, scrape_jobs, clock, hist, pc, loc, ctxDone>>

\* c.Wait() returned; the deferred close(errors) runs first.
ScrapeCloseErrors(r) ==
    /\ producer[r].pc \in {"crawl", "failed"}
    /\ chans' = [chans EXCEPT ![r].errorsClosed = TRUE]
    /\ producer' = [producer EXCEPT ![r] = [@ EXCEPT !.pc = "closing"]]
    /\ UNCHANGED <<listings, scrape_jobs, clock, hist, pc, loc, ctxDone, audit>>

\* The deferred close(listings) runs last; the goroutine ends.
ScrapeCloseListings(r) ==
    /\ producer[r].pc = "closing"
    /\ chans' = [chans EXCEPT ![r].listingsClosed = TRUE]
    /\ producer' = [producer EXCEPT ![r] = [@ EXCEPT !.pc = "done"]]
    /\ UNCHANGED <<listings, scrape_jobs, clock, hist, pc, loc, ctxDone, audit>>

Next ==
    \/ Tick
    \/ \E r \in Runs :
          \/ StartDirect(r) \/ StartWorker(r) \/ StartAll(r) \/ Cancel(r)
          \/ RunSourceResolve(r) \/ RunSourceCreateJob(r) \/ RunSourceReceive(r)
          \/ RunSourceUpsert(r) \/ RunSourceReceiveError(r) \/ RunSourceFinalize(r)
          \/ WorkResolve(r) \/ WorkCreateJob(r) \/ WorkFinish(r)
          \/ RunAllList(r) \/ RunAllNext(r)
          \/ ScrapeEmit(r) \/ ScrapeRequestError(r) \/ ScrapeFatal(r)
          \/ ScrapeCloseErrors(r) \/ ScrapeCloseListings(r)

Spec == Init /\ [][Next]_vars

(***************************************************************************)
(* Two runs in flight: both called RunSource for the seeded source and     *)
(* have resolved it; the database is healthy and nothing is cancelled.     *)
(***************************************************************************)
InitRace ==
    /\ listings = {}
    /\ scrape_jobs = {}
    /\ clock = 1
    /\ hist = <<>>
    /\ pc = [r \in Runs |-> "rs_create"]
    /\ loc = [r \in Runs |->
          [IdleLoc EXCEPT !.kind = "direct", !.slug = "bizbuysell",
                          !.source = Sources[1].ID]]
    /\ chans = [r \in Runs |-> EmptyChans]
    /\ producer = [r \in Runs |-> IdleProducer]
    /\ ctxDone = [r \in Runs |-> FALSE]
    /\ audit = [NoAudit EXCEPT !.nfaults = MaxDbFaults, !.invocations = MaxInvocations]

NextRace ==
    \/ Tick
    \/ \E r \in Runs :
          \/ RunSourceCreateJob(r) \/ RunSourceReceive(r) \/ RunSourceUpsert(r)
          \/ RunSourceReceiveError(r) \/ RunSourceFinalize(r)
          \/ ScrapeEmit(r) \/ ScrapeRequestError(r)
          \/ ScrapeCloseErrors(r) \/ ScrapeCloseListings(r)

SpecRace == InitRace /\ [][NextRace]_vars

(***************************************************************************)
(* One run of a scraper, page by page: the static scraper (colly) and the  *)
(* browser scraper (rod) of the same site, with the reader of the two      *)
(* streams.  The variables hold:                                           *)
(*   producer  the scraper goroutine,   chans    its two channels,         *)
(*   ctxDone   the run's context,       pc       the reader,               *)
(*   loc       the site,                audit    what the run has done.    *)
(***************************************************************************)
PageSize == 20
DefaultMaxPages == 50
CollyMaxDepth == 2
MaxSitePages == 3

\* The number of valid listing cards on a full page of a small site.
SitePageSizes == {1, 2}

\* The sites: small ones of up to MaxSitePages full pages, one whose single
\* page carries more cards than the listing stream buffers, and one with two
\* pages of PageSize cards.
Sites ==
    {[size |-> size, pages |-> pages, loops |-> loops] :
        size \in SitePageSizes, pages \in 0..MaxSitePages, loops \in BOOLEAN}
    \cup {[size |-> ListingsCap + 1, pages |-> 1, loops |-> FALSE]}
    \cup {[size |-> PageSize, pages |-> 2, loops |-> FALSE]}

\* opts.MaxListings of the run.
ScrapeLimits == {0, 3, PageSize}

\* maxPages as both scrapers derive it from the options.
MaxPagesOf(maxListings) ==
    IF maxListings > 0 THEN (maxListings \div PageSize) + 1 ELSE DefaultMaxPages

\* The site: pages 1..pages carry `size` valid listing cards each and a next
\* link; the pages after them are empty, and carry a next link only when
\* the site's pagination is broken (loops).
SiteRecords(p) == IF p <= loc.pages THEN loc.size ELSE 0

SiteHasNext(p) == p <= loc.pages \/ loc.loops

\* if opts.MaxListings > 0 && count >= opts.MaxListings
CapReached == producer.opts.MaxListings > 0 /\ producer.count >= producer.opts.MaxListings

\* The listing a send puts on the stream: the count-th of the run, parsed
\* from the page being processed.
NextListing == [seq |-> producer.count + 1, page |-> producer.pageNum]

\* The goroutine when Scrape has started it.
StartedScraper(impl, maxListings) ==
    [impl |-> impl, pc |-> IF impl = "colly" THEN "visit" ELSE "getpage",
     opts |-> [FullScrape |-> TRUE, MaxListings |-> maxListings],
     maxPages |-> MaxPagesOf(maxListings),
     count |-> 0, pageCount |-> 0, pageNum |-> 1, left |-> 0]

\* The runs of the model: the site with the overfull page is crawled with
\* the limits below a page, the site with full pages with the limit of
\* exactly one page.
ScrapeInput(site, maxListings) ==
    /\ site.size > PageSize => maxListings < PageSize
    /\ site.size = PageSize => maxListings = PageSize

NoScrapeAudit ==
    [fetched |-> 0, late |-> 0, emptyFetched |-> FALSE, afterEmpty |-> FALSE,
     exit |-> "none"]

\* The audit after a page fetch was started.
Fetched(p) ==
    [audit EXCEPT
        !.fetched = @ + 1,
        !.late = IF ctxDone /\ @ < 2 THEN @ + 1 ELSE @,
        !.afterEmpty = @ \/ audit.emptyFetched,
        !.emptyFetched = @ \/ SiteRecords(p) = 0]

\* The audit after a listing was sent.
Emitted == [audit EXCEPT !.late = IF ctxDone /\ @ < 2 THEN @ + 1 ELSE @]

InitScrape ==
    /\ listings = {}
    /\ scrape_jobs = {}
    /\ clock = 1
    /\ hist = <<>>
    /\ pc = "reading"
    /\ loc \in Sites
    /\ chans = EmptyChans
    /\ \E impl \in {"colly", "rod"}, maxListings \in ScrapeLimits :
          /\ ScrapeInput(loc, maxListings)
          /\ producer = StartedScraper(impl, maxListings)
    /\ ctxDone = FALSE
    /\ audit = NoScrapeAudit

(***************************************************************************)
(* BizBuySellScraper.Scrape (colly, synchronous collector).                *)
(***************************************************************************)
\* c.Visit(startURL) or e.Request.Visit(nextURL): the request for page
\* pageNum.  A failed request runs OnError (a non-blocking send); the start
\* visit then returns the error to line 133, a nested visit's error is
\* dropped by the pagination handler.
CollyVisit ==
    /\ producer.impl = "colly"
    /\ producer.pc = "visit"
    /\ \E ok \in BOOLEAN :
          IF ok
          THEN /\ producer' = [producer EXCEPT !.pc = "cards",
                                               !.left = SiteRecords(producer.pageNum)]
               /\ chans' = chans
               /\ audit' = Fetched(producer.pageNum)
          ELSE /\ producer' = [producer EXCEPT
                     !.pc = IF producer.pageNum = 1 THEN "startfail" ELSE "unwind"]
               /\ chans' = [chans EXCEPT !.errors =
                     IF Len(@) < ErrorsCap THEN Append(@, "request error") ELSE @]
               /\ audit' = [Fetched(producer.pageNum) EXCEPT
                     !.emptyFetched = audit.emptyFetched, !.exit = "fatal"]
    /\ UNCHANGED <<listings, scrape_jobs, clock, hist, pc, loc, ctxDone>>

\* errors <- fmt.Errorf("failed to start scrape: %w", err): a blocking send.
CollyStartFailed ==
    /\ producer.pc = "startfail"
    /\ Len(chans.errors) < ErrorsCap
    /\ chans' = [chans EXCEPT !.errors = Append(@, "failed to start scrape")]
    /\ producer' = [producer EXCEPT !.pc = "unwind"]
    /\ UNCHANGED <<listings, scrape_jobs, clock, hist, pc, loc, ctxDone, audit>>

\* A listing card handler that sends with a plain `listings <- listing`:
\* no case for ctx.Done().
CollyCardBlockingSend ==
    /\ producer.pc = "cards"
    /\ producer.left > 0
    /\ IF CapReached
       THEN /\ producer' = [producer EXCEPT !.left = @ - 1]
            /\ UNCHANGED <<chans, audit>>
       ELSE /\ Len(chans.listings) < ListingsCap
            /\ chans' = [chans EXCEPT !.listings = Append(@, NextListing)]
            /\ producer' = [producer EXCEPT !.left = @ - 1, !.count = @ + 1]
            /\ audit' = Emitted
    /\ UNCHANGED <<listings, scrape_jobs, clock, hist, pc, loc, ctxDone>>

\* A listing card handler without the test of count against MaxListings.
CollyCardNoCap ==
    /\ producer.pc = "cards"
    /\ producer.left > 0
    /\ \/ /\ Len(chans.listings) < ListingsCap
          /\ chans' = [chans EXCEPT !.listings = Append(@, NextListing)]
          /\ producer' = [producer EXCEPT !.left = @ - 1, !.count = @ + 1]
          /\ audit' = Emitted
       \/ /\ ctxDone
          /\ producer' = [producer EXCEPT !.left = @ - 1]
          /\ UNCHANGED <<chans, audit>>
    /\ UNCHANGED <<listings, scrape_jobs, clock, hist, pc, loc, ctxDone>>

\* A listing card handler on the next card of the page: return at the cap,
\* else the select of the send against ctx.Done(); either way the collector
\* goes on to the next card.
CollyCard ==
    /\ producer.pc = "cards"
    /\ producer.left > 0
    /\ IF CapReached
       THEN /\ producer' = [producer EXCEPT !.left = @ - 1]
            /\ UNCHANGED <<chans, audit>>
       ELSE \/ /\ Len(chans.listings) < ListingsCap
               /\ chans' = [chans EXCEPT !.listings = Append(@, NextListing)]
               /\ producer' = [producer EXCEPT !.left = @ - 1, !.count = @ + 1]
               /\ audit' = Emitted
            \/ /\ ctxDone
               /\ producer' = [producer EXCEPT !.left = @ - 1]
               /\ UNCHANGED <<chans, audit>>
    /\ UNCHANGED <<listings, scrape_jobs, clock, hist, pc, loc, ctxDone>>

\* The pagination handler, after the cards of the page: return at the cap
\* or at maxPages, else count the page and visit the next link.  The visit
\* is refused (an error the handler drops) when the page would lie deeper
\* than colly.MaxDepth allows, the start page being at depth one.  Without a
\* visit the collector has nothing left and c.Wait() returns.
CollyNext ==
    /\ producer.pc = "cards"
    /\ producer.left = 0
    /\ IF SiteHasNext(producer.pageNum) /\ ~CapReached
          /\ producer.pageCount < producer.maxPages
       THEN IF producer.pageNum < CollyMaxDepth
            THEN /\ producer' = [producer EXCEPT !.pageCount = @ + 1, !.pageNum = @ + 1,
                                                 !.pc = "visit"]
                 /\ audit' = audit
            ELSE /\ producer' = [producer EXCEPT !.pageCount = @ + 1, !.pc = "unwind"]
                 /\ audit' = [audit EXCEPT !.exit = "end"]
       ELSE /\ producer' = [producer EXCEPT !.pc = "unwind"]
            /\ audit' = [audit EXCEPT !.exit = IF CapReached THEN "cap" ELSE "end"]
    /\ UNCHANGED <<listings, scrape_jobs, clock, hist, pc, loc, chans, ctxDone>>

(***************************************************************************)
(* BizBuySellRodScraper.Scrape (headless browser).                         *)
(***************************************************************************)
\* s.pool.GetPage(): on failure the error is sent and the goroutine returns.
RodGetPage ==
    /\ producer.pc = "getpage"
    /\ \E ok \in BOOLEAN :
          IF ok
          THEN /\ producer' = [producer EXCEPT !.pc = "navigate"]
               /\ UNCHANGED <<chans, audit>>
          ELSE /\ Len(chans.errors) < ErrorsCap
               /\ chans' = [chans EXCEPT !.errors = Append(@, "failed to get page")]
               /\ producer' = [producer EXCEPT !.pc = "unwind"]
               /\ audit' = [audit EXCEPT !.exit = "fatal"]
    /\ UNCHANGED <<listings, scrape_jobs, clock, hist, pc, loc, ctxDone>>

\* for pageNum <= maxPages is false: the loop ends.
RodLoopEnd ==
    /\ producer.pc = "navigate"
    /\ producer.pageNum > producer.maxPages
    /\ producer' = [producer EXCEPT !.pc = "unwind"]
    /\ audit' = [audit EXCEPT !.exit = "end"]
    /\ UNCHANGED <<listings, scrape_jobs, clock, hist, pc, loc, chans, ctxDone>>

\* The page loop with the blocked-page test taken out: a page that carries a
\* block marker parses to no listing and ends the loop like an empty page.
RodNavigateBlockedSilent ==
    /\ producer.pc = "navigate"
    /\ producer.pageNum <= producer.maxPages
    /\ \E outcome \in {"ok", "unreachable", "blocked"} :
          IF outcome = "ok"
          THEN /\ producer' = [producer EXCEPT
                     !.left = SiteRecords(producer.pageNum),
                     !.pc = IF SiteRecords(producer.pageNum) = 0 THEN "unwind" ELSE "emit"]
               /\ chans' = chans
               /\ audit' = [Fetched(producer.pageNum) EXCEPT
                     !.exit = IF SiteRecords(producer.pageNum) = 0 THEN "end" ELSE @]
          ELSE /\ Len(chans.errors) < ErrorsCap
               /\ chans' = IF outcome = "blocked" THEN chans
                           ELSE [chans EXCEPT !.errors = Append(@, outcome)]
               /\ producer' = [producer EXCEPT !.pc = "unwind"]
               /\ audit' = [Fetched(producer.pageNum) EXCEPT
                     !.emptyFetched = audit.emptyFetched,
                     !.exit = IF outcome = "blocked" THEN "blocked" ELSE "fatal"]
    /\ UNCHANGED <<listings, scrape_jobs, clock, hist, pc, loc, ctxDone>>

\* One page of the loop up to the parse: navigation, the blocked-page test
\* and the parse each send their error and break; an empty page breaks.
RodNavigate ==
    /\ producer.pc = "navigate"
    /\ producer.pageNum <= producer.maxPages
    /\ \E outcome \in {"ok", "unreachable", "blocked"} :
          IF outcome = "ok"
          THEN /\ producer' = [producer EXCEPT
                     !.left = SiteRecords(producer.pageNum),
                     !.pc = IF SiteRecords(producer.pageNum) = 0 THEN "unwind" ELSE "emit"]
               /\ chans' = chans
               /\ audit' = [Fetched(producer.pageNum) EXCEPT
                     !.exit = IF SiteRecords(producer.pageNum) = 0 THEN "end" ELSE @]
          ELSE /\ Len(chans.errors) < ErrorsCap
               /\ chans' = [chans EXCEPT !.errors = Append(@, outcome)]
               /\ producer' = [producer EXCEPT !.pc = "unwind"]
               /\ audit' = [Fetched(producer.pageNum) EXCEPT
                     !.emptyFetched = audit.emptyFetched,
                     !.exit = IF outcome = "blocked" THEN "blocked" ELSE "fatal"]
    /\ UNCHANGED <<listings, scrape_jobs, clock, hist, pc, loc, ctxDone>>

\* The next listing of the page: return at the cap, else the select of the
\* send against ctx.Done(), which returns.  After the last listing of the
\* page pageNum is incremented.
RodEmit ==
    /\ producer.pc = "emit"
    /\ producer.left > 0
    /\ IF CapReached
       THEN /\ producer' = [producer EXCEPT !.pc = "unwind"]
            /\ audit' = [audit EXCEPT !.exit = "cap"]
            /\ chans' = chans
       ELSE \/ /\ Len(chans.listings) < ListingsCap
               /\ chans' = [chans EXCEPT !.listings = Append(@, NextListing)]
               /\ producer' = [producer EXCEPT
                     !.left = @ - 1, !.count = @ + 1,
                     !.pageNum = IF producer.left = 1 THEN @ + 1 ELSE @,
                     !.pc = IF producer.left = 1 THEN "navigate" ELSE "emit"]
               /\ audit' = Emitted
            \/ /\ ctxDone
               /\ producer' = [producer EXCEPT !.pc = "unwind"]
               /\ audit' = [audit EXCEPT !.exit = "cancel"]
               /\ chans' = chans
    /\ UNCHANGED <<listings, scrape_jobs, clock, hist, pc, loc, ctxDone>>

(***************************************************************************)
(* Both scrapers: the deferred closes; the reader; the context.            *)
(***************************************************************************)
\* close(errors) placed at the end of the function body instead of being
\* deferred: the returns on an error skip it.
ScraperCloseErrorsAtEnd ==
    /\ producer.pc = "unwind"
    /\ audit.exit \notin {"fatal", "blocked"}
    /\ chans' = [chans EXCEPT !.errorsClosed = TRUE]
    /\ producer' = [producer EXCEPT !.pc = "closing"]
    /\ UNCHANGED <<listings, scrape_jobs, clock, hist, pc, loc, ctxDone, audit>>

\* The goroutine's function returns: defer close(errors) runs first.
ScraperCloseErrors ==
    /\ producer.pc = "unwind"
    /\ chans' = [chans EXCEPT !.errorsClosed = TRUE]
    /\ producer' = [producer EXCEPT !.pc = "closing"]
    /\ UNCHANGED <<listings, scrape_jobs, clock, hist, pc, loc, ctxDone, audit>>

\* defer close(listings) runs last; the goroutine ends.
ScraperCloseListings ==
    /\ producer.pc = "closing"
    /\ chans' = [chans EXCEPT !.listingsClosed = TRUE]
    /\ producer' = [producer EXCEPT !.pc = "done"]
    /\ UNCHANGED <<listings, scrape_jobs, clock, hist, pc, loc, ctxDone, audit>>

\* A reader that takes the newest listing of the buffer.
ReaderReceiveNewest ==
    /\ pc = "reading"
    /\ chans.listings # <<>>
    /\ hist' = <<chans.listings[Len(chans.listings)]>>
    /\ chans' = [chans EXCEPT !.listings = SubSeq(@, 1, Len(@) - 1)]
    /\ UNCHANGED <<listings, scrape_jobs, clock, pc, loc, producer, ctxDone, audit>>

\* The reader takes a listing off the stream and hands it to Upsert before
\* it reads again; hist holds the listing handed to Upsert last.
ReaderReceive ==
    /\ pc = "reading"
    /\ chans.listings # <<>>
    /\ hist' = <<Head(chans.listings)>>
    /\ chans' = [chans EXCEPT !.listings = Tail(@)]
    /\ UNCHANGED <<listings, scrape_jobs, clock, pc, loc, producer, ctxDone, audit>>

\* The reader takes an error off the stream.
ReaderReceiveError ==
    /\ pc = "reading"
    /\ chans.errors # <<>>
    /\ chans' = [chans EXCEPT !.errors = Tail(@)]
    /\ UNCHANGED <<listings, scrape_jobs, clock, hist, pc, loc, producer, ctxDone, audit>>

\* The reader of a cancelled run stops reading.
ReaderStall ==
    /\ pc = "reading"
    /\ ctxDone
    /\ pc' = "stalled"
    /\ UNCHANGED <<listings, scrape_jobs, clock, hist, loc, chans, producer, ctxDone, audit>>

\* The context of the run is cancelled.
CancelScrape ==
    /\ ~ctxDone
    /\ producer.pc # "done"
    /\ ctxDone' = TRUE
    /\ UNCHANGED <<listings, scrape_jobs, clock, hist, pc, loc, chans, producer, audit>>

ScraperStep ==
    \/ CollyVisit \/ CollyStartFailed \/ CollyCard \/ CollyNext
    \/ RodGetPage \/ RodLoopEnd \/ RodNavigate \/ RodEmit
    \/ ScraperCloseErrors \/ ScraperCloseListings

NextScrape ==
    \/ ScraperStep
    \/ ReaderReceive \/ ReaderReceiveError \/ ReaderStall
    \/ CancelScrape

SpecScrape == InitScrape /\ [][NextScrape]_vars

\* The goroutine is scheduled while it can take a step, and a reader that
\* has not stopped goes on reading.
FairSpecScrape ==
    /\ SpecScrape
    /\ WF_vars(ScraperStep)
    /\ WF_vars(ReaderReceive \/ ReaderReceiveError)

(***************************************************************************)
(* The on-demand trigger: SourceHandler.TriggerRefresh and its             *)
(* RateLimiter.  In this specification                                     *)
(*   clock     is time.Now(),                                              *)
(*   producer  is the handler's RateLimiter (limit, window),               *)
(*   loc       is rl.requests: for every key the accepted call times,      *)
(*   chans     is the river queue: the job arguments inserted so far,      *)
(*   hist      is the requests answered so far, in order.                  *)
(***************************************************************************)
MaxNow == 4
WindowLen == 2
MaxRequests == 3

\* r.RemoteAddr of the callers.
LimiterKeys == {"10.0.0.1:40000", "10.0.0.2:40000"}

\* The limit of the limiter: NewSourceHandler passes 1.
RefreshLimit == 1
RateLimits == {RefreshLimit, RefreshLimit + 1}

\* The source query parameter of a refresh request.
RefreshSlugs == {"", "bizbuysell"}

NewRateLimiter(limit, window) == [limit |-> limit, window |-> window]

\* The entries of rl.requests[key] inside the window: t.After(windowStart).
ValidRequests(key) ==
    SelectSeq(loc[key], LAMBDA t : t > clock - producer.window)

\* Allow with the test `len(valid) > rl.limit`.
AllowOffByOne(key) ==
    IF Len(ValidRequests(key)) > producer.limit
    THEN [ok |-> FALSE, requests |-> ValidRequests(key)]
    ELSE [ok |-> TRUE, requests |-> Append(ValidRequests(key), clock)]

\* Allow that appends the time of a rejected call as well.
AllowRecordsRejected(key) ==
    IF Len(ValidRequests(key)) >= producer.limit
    THEN [ok |-> FALSE, requests |-> Append(ValidRequests(key), clock)]
    ELSE [ok |-> TRUE, requests |-> Append(ValidRequests(key), clock)]

\* RateLimiter.Allow, under rl.mu from the first statement to the return:
\* its result and the new rl.requests[key].
Allow(key) ==
    IF Len(ValidRequests(key)) >= producer.limit
    THEN [ok |-> FALSE, requests |-> ValidRequests(key)]
    ELSE [ok |-> TRUE, requests |-> Append(ValidRequests(key), clock)]

StatusAccepted == 202
StatusTooManyRequests == 429
StatusInternalServerError == 500

\* queueScrapeJob: the job arguments it inserts.
RefreshJob(slug) ==
    IF slug = "" THEN [kind |-> "scrape_all", SourceSlug |-> "", FullScrape |-> FALSE]
    ELSE [kind |-> "scrape", SourceSlug |-> slug, MaxListings |-> 0,
          FullScrape |-> FALSE]

InitLimit ==
    /\ listings = {}
    /\ scrape_jobs = {}
    /\ clock = 0
    /\ hist = <<>>
    /\ pc = "serving"
    /\ loc = [key \in LimiterKeys |-> <<>>]
    /\ chans = <<>>
    /\ \E limit \in RateLimits : producer = NewRateLimiter(limit, WindowLen)
    /\ ctxDone = FALSE
    /\ audit = 0

\* Time passes.
LimiterTick ==
    /\ clock < MaxNow
    /\ clock' = clock + 1
    /\ UNCHANGED <<listings, scrape_jobs, hist, pc, loc, chans, producer, ctxDone, audit>>

\* A TriggerRefresh that gives the quota back when queueScrapeJob fails:
\* the accepted time is kept only for a queued job.
TriggerRefreshRefund(key, slug, inserted) ==
    /\ Len(hist) < MaxRequests
    /\ loc' = [loc EXCEPT ![key] = IF Allow(key).ok /\ ~inserted
                                    THEN ValidRequests(key)
                                    ELSE Allow(key).requests]
    /\ IF ~Allow(key).ok
       THEN /\ hist' = Append(hist, [key |-> key, at |-> clock, allowed |-> FALSE,
                                     status |-> StatusTooManyRequests])
            /\ chans' = chans
       ELSE IF inserted
       THEN /\ hist' = Append(hist, [key |-> key, at |-> clock, allowed |-> TRUE,
                                     status |-> StatusAccepted])
            /\ chans' = Append(chans, RefreshJob(slug))
       ELSE /\ hist' = Append(hist, [key |-> key, at |-> clock, allowed |-> TRUE,
                                     status |-> StatusInternalServerError])
            /\ chans' = chans
    /\ UNCHANGED <<listings, scrape_jobs, clock, pc, producer, ctxDone, audit>>

\* SourceHandler.TriggerRefresh for a request from `key`; inserted tells
\* whether queueScrapeJob succeeds.
TriggerRefresh(key, slug, inserted) ==
    /\ Len(hist) < MaxRequests
    /\ loc' = [loc EXCEPT ![key] = Allow(key).requests]
    /\ IF ~Allow(key).ok
       THEN /\ hist' = Append(hist, [key |-> key, at |-> clock, allowed |-> FALSE,
                                     status |-> StatusTooManyRequests])
            /\ chans' = chans
       ELSE IF inserted
       THEN /\ hist' = Append(hist, [key |-> key, at |-> clock, allowed |-> TRUE,
                                     status |-> StatusAccepted])
            /\ chans' = Append(chans, RefreshJob(slug))
       ELSE /\ hist' = Append(hist, [key |-> key, at |-> clock, allowed |-> TRUE,
                                     status |-> StatusInternalServerError])
            /\ chans' = chans
    /\ UNCHANGED <<listings, scrape_jobs, clock, pc, producer, ctxDone, audit>>

\* rl.cleanup, run by the ticker: drops the entries outside the window (a
\* deleted key reads as the empty slice).
Cleanup ==
    /\ \E key \in LimiterKeys : loc[key] # ValidRequests(key)
    /\ loc' = [key \in LimiterKeys |-> ValidRequests(key)]
    /\ UNCHANGED <<listings, scrape_jobs, clock, hist, pc, chans, producer, ctxDone, audit>>

NextLimit ==
    \/ LimiterTick
    \/ \E key \in LimiterKeys, slug \in RefreshSlugs, inserted \in BOOLEAN :
          TriggerRefresh(key, slug, inserted)
    \/ Cleanup

SpecLimit == InitLimit /\ [][NextLimit]_vars

(***************************************************************************)
(* The periodic trigger: river's periodic job and ScrapeAllJobWorker.  In  *)
(* this specification                                                      *)
(*   clock   counts the periodic intervals that have passed,               *)
(*   chans   is the river queue: the periodic jobs not yet worked,         *)
(*   audit   is the number of jobs worked so far.                          *)
(* One job is worked at a time and its RunAll, a sequential loop over the  *)
(* sources with nothing else running, is taken as one step.                *)
(***************************************************************************)
\* The staleness window, in periodic intervals.
StaleWindow == 1

\* ScrapeAllJobArgs{}
ScrapeAllJobArgs == [kind |-> "scrape_all"]

\* The uuid RunSource draws for the listing ext, or for the job record
\* (ext = 0), of source sourceID in the job-th job worked.
ScheduledUuid(job, sourceID, ext) ==
    ((job * Len(Sources)) + sourceID) * (Cardinality(ExternalIds) + 1) + ext + 1

\* Upsert of every listing of a sequence, in order.
RECURSIVE UpsertAll(_, _)
UpsertAll(rows, ls) ==
    IF ls = <<>> THEN rows ELSE UpsertAll(Upsert(rows, Head(ls)), Tail(ls))

\* The external ids of a set in page order.
RECURSIVE InPageOrder(_)
InPageOrder(exts) ==
    IF exts = {} THEN <<>>
    ELSE LET first == CHOOSE e \in exts : \A other \in exts : e <= other
         IN  <<first>> \o InPageOrder(exts \ {first})

\* What RunSource hands to Upsert for the listings `exts` its scraper
\* emitted: each stamped with the source, a fresh uuid and the time.
Observed(job, sourceID, exts) ==
    [i \in 1..Cardinality(exts) |->
        Candidate(ScheduledUuid(job, sourceID, InPageOrder(exts)[i]), sourceID,
                  InPageOrder(exts)[i], 1, "US", clock, TRUE)]

\* The scrape_jobs table after RunSource ran for sourceID and found n
\* listings: the record is created running and finalized completed.
JobRecorded(jobs, job, sourceID, n) ==
    LET started == NewScrapeJob(ScheduledUuid(job, sourceID, 0), sourceID, clock)
    IN  UpdateScrapeJob(CreateScrapeJob(jobs, started),
            [started EXCEPT !.Status = "completed", !.CompletedAt = clock,
                            !.ListingsFound = n, !.ListingsNew = n])

\* The sources RunAll runs a scraper for: the active ones with a registered
\* scraper (for the others RunSource returns an error, which is logged).
ScrapedSources == {src \in {ListActive[i] : i \in 1..Len(ListActive)} : src.Slug \in Scrapers}

InitSchedule ==
    /\ listings = {}
    /\ scrape_jobs = {}
    /\ clock = 0
    /\ hist = <<>>
    /\ pc = "scheduling"
    /\ loc = <<>>
    /\ chans = <<>>
    /\ producer = <<>>
    /\ ctxDone = FALSE
    /\ audit = 0

\* river.PeriodicInterval(24 * time.Hour), RunOnStart false: an interval
\* passes and the constructor's job is inserted.
PeriodicJob ==
    /\ clock < MaxNow
    /\ clock' = clock + 1
    /\ chans' = Append(chans, ScrapeAllJobArgs)
    /\ UNCHANGED <<listings, scrape_jobs, hist, pc, loc, producer, ctxDone, audit>>

\* ScrapeAllJobWorker.Work: engine.RunAll, and nothing else.  exts are the
\* listings the site shows during this run.
ScrapeAllWork ==
    /\ chans # <<>>
    /\ chans' = Tail(chans)
    /\ audit' = audit + 1
    /\ \E exts \in SUBSET ExternalIds :
          /\ listings' =
                IF ScrapedSources = {} THEN listings
                ELSE LET src == CHOOSE src \in ScrapedSources : TRUE
                     IN  UpsertAll(listings, Observed(audit, src.ID, exts))
          /\ scrape_jobs' =
                IF ScrapedSources = {} THEN scrape_jobs
                ELSE LET src == CHOOSE src \in ScrapedSources : TRUE
                     IN  JobRecorded(scrape_jobs, audit, src.ID, Cardinality(exts))
    /\ UNCHANGED <<clock, hist, pc, loc, producer, ctxDone>>

NextSchedule == PeriodicJob \/ ScrapeAllWork

SpecSchedule == InitSchedule /\ [][NextSchedule]_vars

\* river inserts the periodic job at every interval and a worker takes up
\* every job that is waiting.
FairSpecSchedule ==
    /\ SpecSchedule
    /\ WF_vars(PeriodicJob)
    /\ WF_vars(ScrapeAllWork)

(***************************************************************************)
(* parsePrice.  Texts are strings; an int64 amount of cents is kept as a   *)
(* decimal, digits * 10^zeros with digits not divisible by ten, since the  *)
(* amounts exceed the integers of the checker.  The amounts of the model   *)
(* are exactly representable as float64.                                   *)
(***************************************************************************)
Uppers == "ABCDEFGHIJKLMNOPQRSTUVWXYZ"
Lowers == "abcdefghijklmnopqrstuvwxyz"
Digits == "0123456789"

\* The position of the one-character string c in s, 0 when it is absent.
IndexOf(s, c) ==
    IF \E i \in 1..Len(s) : SubSeq(s, i, i) = c
    THEN CHOOSE i \in 1..Len(s) : SubSeq(s, i, i) = c
    ELSE 0

\* strings.ToLower
RECURSIVE ToLower(_)
ToLower(s) ==
    IF s = "" THEN ""
    ELSE (IF IndexOf(Uppers, Head(s)) > 0
          THEN SubSeq(Lowers, IndexOf(Uppers, Head(s)), IndexOf(Uppers, Head(s)))
          ELSE Head(s)) \o ToLower(Tail(s))

\* strings.HasPrefix
HasPrefix(s, w) == Len(s) >= Len(w) /\ SubSeq(s, 1, Len(w)) = w

\* strings.Contains
Contains(s, w) == \E i \in 1..(Len(s) + 1 - Len(w)) : SubSeq(s, i, i + Len(w) - 1) = w

\* strings.ReplaceAll(s, w, "")
RECURSIVE RemoveAll(_, _)
RemoveAll(s, w) ==
    IF s = "" THEN ""
    ELSE IF HasPrefix(s, w) THEN RemoveAll(SubSeq(s, Len(w) + 1, Len(s)), w)
    ELSE Head(s) \o RemoveAll(Tail(s), w)

\* strings.TrimSpace
RECURSIVE TrimSpace(_)
TrimSpace(s) ==
    IF s = "" THEN ""
    ELSE IF Head(s) = " " THEN TrimSpace(Tail(s))
    ELSE IF SubSeq(s, Len(s), Len(s)) = " " THEN TrimSpace(SubSeq(s, 1, Len(s) - 1))
    ELSE s

\* strings.Split(s, "-")[0]
RECURSIVE BeforeDash(_)
BeforeDash(s) ==
    IF s = "" \/ Head(s) = "-" THEN "" ELSE Head(s) \o BeforeDash(Tail(s))

IsNumberChar(c) == c = "." \/ IndexOf(Digits, c) > 0

\* The longest prefix of s made of digits and dots.
RECURSIVE NumberPrefix(_)
NumberPrefix(s) ==
    IF s = "" \/ ~IsNumberChar(Head(s)) THEN ""
    ELSE Head(s) \o NumberPrefix(Tail(s))

\* regexp `[\d.]+`, FindString: the leftmost longest match, "" without one.
RECURSIVE FindNumber(_)
FindNumber(s) ==
    IF s = "" THEN ""
    ELSE IF IsNumberChar(Head(s)) THEN NumberPrefix(s)
    ELSE FindNumber(Tail(s))

RECURSIVE Pow10(_)
Pow10(n) == IF n = 0 THEN 1 ELSE 10 * Pow10(n - 1)

\* The digits of s read as an integer, dots skipped.
RECURSIVE DigitsValue(_, _)
DigitsValue(s, acc) ==
    IF s = "" THEN acc
    ELSE IF Head(s) = "." THEN DigitsValue(Tail(s), acc)
    ELSE DigitsValue(Tail(s), (acc * 10) + (IndexOf(Digits, Head(s)) - 1))

\* strconv.ParseFloat of a match of `[\d.]+`: an error for more than one dot
\* or no digit, else the value digits / 10^frac.
ParseFloat(s) ==
    LET dots == Len(s) - Len(RemoveAll(s, "."))
    IN  IF dots > 1 \/ dots = Len(s)
        THEN [err |-> TRUE, digits |-> 0, frac |-> 0]
        ELSE [err |-> FALSE, digits |-> DigitsValue(s, 0),
              frac |-> IF dots = 0 THEN 0 ELSE Len(s) - IndexOf(s, ".")]

\* digits * 10^zeros, with the trailing zeros of digits moved to zeros.
RECURSIVE Decimal(_, _)
Decimal(digits, zeros) ==
    IF digits = 0 THEN [digits |-> 0, zeros |-> 0]
    ELSE IF digits % 10 = 0 THEN Decimal(digits \div 10, zeros + 1)
    ELSE [digits |-> digits, zeros |-> zeros]

\* int64(val * 100), val being digits / 10^frac * 10^scale: the conversion
\* truncates the fraction.
Int64Cents(digits, frac, scale) ==
    IF scale + 2 >= frac THEN Decimal(digits, (scale + 2) - frac)
    ELSE Decimal(digits \div Pow10(frac - (scale + 2)), 0)

\* The text after the removals, up to the range handling.
PriceCleaned(text) ==
    LET removed == TrimSpace(RemoveAll(RemoveAll(RemoveAll(RemoveAll(RemoveAll(
                      ToLower(text), "$"), ","), "asking price"), "cash flow"), "revenue"))
    IN  IF Contains(removed, "-") THEN TrimSpace(BeforeDash(removed)) ELSE removed

\* parsePrice: the amount in cents, zero for no value.
parsePrice(text) ==
    LET cleaned == PriceCleaned(text)
        match == FindNumber(cleaned)
        val == ParseFloat(match)
    IN  IF text = "" THEN Decimal(0, 0)
        ELSE IF \/ Contains(cleaned, "disclosed") \/ Contains(cleaned, "call")
                \/ Contains(cleaned, "contact") \/ Contains(cleaned, "n/a")
        THEN Decimal(0, 0)
        ELSE IF match = "" \/ val.err THEN Decimal(0, 0)
        ELSE Int64Cents(val.digits, val.frac,
                 IF Contains(cleaned, "m") \/ Contains(cleaned, "mil") THEN 6
                 ELSE IF Contains(cleaned, "k") THEN 3 ELSE 0)

\* The amount texts of a page: an amount with or without a currency sign and
\* a multiplier suffix, followed by nothing, by the upper bound of a range
\* or by words; and texts without an amount.
PriceAmounts ==
    {[text |-> "1", cents |-> 100], [text |-> "500", cents |-> 50000],
     [text |-> "1.5", cents |-> 150], [text |-> "250,000", cents |-> 25000000],
     [text |-> "1,250,000", cents |-> 125000000]}

PriceSuffixes == {"", "K", "k", "M", "m"}

PriceTrailers == {"", " - $2M", " or best offer", " firm", " per week"}

PriceTexts ==
    {[text |-> sign \o amount.text \o suffix \o trailer,
      cents |-> amount.cents, suffix |-> suffix, trailer |-> trailer] :
        sign \in {"", "$"}, amount \in PriceAmounts, suffix \in PriceSuffixes,
        trailer \in PriceTrailers}
    \cup {[text |-> text, cents |-> 0, suffix |-> "", trailer |-> ""] :
            text \in {"", "Call for price", "Not Disclosed", "N/A", "Contact seller"}}

InitPrice ==
    /\ listings = {}
    /\ scrape_jobs = {}
    /\ clock = 1
    /\ hist = <<>>
    /\ pc = "parse"
    /\ loc \in PriceTexts
    /\ chans = <<>>
    /\ producer = <<>>
    /\ ctxDone = FALSE
    /\ audit = Decimal(0, 0)

\* price := parsePrice(priceText)
ParsePriceText ==
    /\ pc = "parse"
    /\ audit' = parsePrice(loc.text)
    /\ pc' = "parsed"
    /\ UNCHANGED <<listings, scrape_jobs, clock, hist, loc, chans, producer, ctxDone>>

NextPrice == ParsePriceText

SpecPrice == InitPrice /\ [][NextPrice]_vars

(***************************************************************************)
(* Properties of the repository, over the calls recorded in hist.          *)
(***************************************************************************)
Upserts == {i \in 1..Len(hist) : hist[i].op = "upsert"}

\* Upserts i < j on one key with no upsert on that key between them.
Consecutive(i, j) ==
    /\ i < j
    /\ SameListingKey(hist[i].l, hist[j].l)
    /\ \A k \in Upserts : (i < k /\ k < j) => ~SameListingKey(hist[k].l, hist[i].l)

\* The scraped values of two candidates agree (their uuid and the two
\* observation stamps aside).
SameValues(l1, l2) ==
    [l1 EXCEPT !.ID = UuidNil, !.FirstSeenAt = ZeroTime, !.LastSeenAt = ZeroTime]
  = [l2 EXCEPT !.ID = UuidNil, !.FirstSeenAt = ZeroTime, !.LastSeenAt = ZeroTime]

\* C1: the store holds at most one row per (source_id, external_id), as many
\* rows as distinct keys were upserted, and an Upsert on a stored key leaves
\* exactly the stored row (same id) in place of a new one.
C1_OneRowPerKey ==
    /\ \A r1, r2 \in listings :
          (r1.source_id = r2.source_id /\ r1.external_id = r2.external_id)
             => r1 = r2
    /\ Cardinality(listings)
         = Cardinality({<<hist[i].l.SourceID, hist[i].l.ExternalID>> : i \in Upserts})
    /\ \A i \in Upserts :
          hist[i].before # {} =>
             /\ Cardinality(hist[i].after) = 1
             /\ {row.id : row \in hist[i].after} = {row.id : row \in hist[i].before}

\* C1 witness: after MaxCalls calls, a stored key was upserted again by a
\* candidate that carries another uuid.
C1_Witness ==
    /\ Len(hist) = MaxCalls
    /\ \E i, j \in Upserts : Consecutive(i, j) /\ hist[j].l.ID # hist[i].l.ID
    /\ Cardinality(listings) >= 1

\* C3: a second Upsert of the same key with the same values and a later
\* observation time leaves one row, equal to the row after the first Upsert
\* but for last_seen_at, which is the later time.
C3_Idempotent ==
    \A i, j \in Upserts :
        (/\ Consecutive(i, j)
         /\ SameValues(hist[i].l, hist[j].l)
         /\ hist[j].l.LastSeenAt > hist[i].l.LastSeenAt)
        => /\ Cardinality(hist[j].after) = 1
           /\ \A a \in hist[i].after :
                 hist[j].after = {[a EXCEPT !.last_seen_at = hist[j].l.LastSeenAt]}

\* C3 witness: such a pair of Upserts has been executed.
C3_Witness ==
    \E i, j \in Upserts :
        /\ Consecutive(i, j)
        /\ SameValues(hist[i].l, hist[j].l)
        /\ hist[j].l.LastSeenAt > hist[i].l.LastSeenAt
        /\ hist[j].after \subseteq listings

\* The first Upsert recorded for the key of `row`.
FirstUpsertOf(row) ==
    CHOOSE i \in Upserts :
        /\ hist[i].l.SourceID = row.source_id
        /\ hist[i].l.ExternalID = row.external_id
        /\ \A k \in Upserts :
              (hist[k].l.SourceID = row.source_id
                 /\ hist[k].l.ExternalID = row.external_id) => i <= k

\* C4: every stored row still has the id and the first_seen_at its first
\* insert wrote, whatever was upserted on its key since.
C4_IdentityKept ==
    \A row \in listings :
        /\ row.id = hist[FirstUpsertOf(row)].l.ID
        /\ row.first_seen_at = hist[FirstUpsertOf(row)].l.FirstSeenAt

\* C4 witness: a row re-observed twice by candidates that carry another uuid
\* and another first-seen stamp than the insert did.
C4_Witness ==
    \E i, j, k \in Upserts :
        /\ Consecutive(i, j) /\ Consecutive(j, k)
        /\ hist[i].before = {}
        /\ hist[k].l.ID # hist[i].l.ID
        /\ hist[k].l.FirstSeenAt # hist[i].l.FirstSeenAt
        /\ hist[j].l.FirstSeenAt # hist[i].l.FirstSeenAt

\* C6: after an Upsert on a stored key the row carries the candidate's
\* descriptive, financial and location values, its observation time, and is
\* active.
C6_OverwritesAll ==
    \A i \in Upserts :
        hist[i].before # {} =>
            \A a \in hist[i].after :
                /\ a.url = hist[i].l.URL
                /\ a.title = hist[i].l.Title
                /\ a.description = hist[i].l.Description
                /\ a.asking_price = hist[i].l.AskingPrice
                /\ a.revenue = hist[i].l.Revenue
                /\ a.cash_flow = hist[i].l.CashFlow
                /\ a.ebitda = hist[i].l.EBITDA
                /\ a.inventory_value = hist[i].l.Inventory
                /\ a.real_estate_value = hist[i].l.RealEstateValue
                /\ a.monthly_rent = hist[i].l.MonthlyRent
                /\ a.city = hist[i].l.City
                /\ a.state = hist[i].l.State
                /\ a.zip_code = hist[i].l.ZipCode
                /\ a.country = hist[i].l.Country
                /\ a.lat = hist[i].l.Lat
                /\ a.lng = hist[i].l.Lng
                /\ a.industry = hist[i].l.Industry
                /\ a.is_franchise = hist[i].l.IsFranchise
                /\ a.franchise_name = hist[i].l.FranchiseName
                /\ a.last_seen_at = hist[i].l.LastSeenAt
                /\ a.is_active = TRUE

(***************************************************************************)
(* Properties of the engine.                                               *)
(***************************************************************************)
\* The scrape_jobs rows with the given id.
JobRows(id) == {row \in scrape_jobs : row.id = id}

TerminalStatus == {"completed", "failed"}

\* The row a candidate yields when all its values are stored, with the
\* identity (id, first_seen_at) of `row`.
StoredFrom(row, l) ==
    [InsertRow(l) EXCEPT
        !.id = row.id, !.first_seen_at = row.first_seen_at,
        !.search_vector = <<l.Title, l.Description, l.Industry, l.City, l.State>>]

\* C2: whatever the interleaving of two runs in flight, every key that was
\* upserted has exactly one row, and every mutable field of that row
\* (country, last_seen_at and is_active included) is the value of the
\* candidate whose Upsert on the key executed last.
C2_LastWriterWins ==
    \A e \in audit.last :
        LET rows == RowsOf(listings, e.l.SourceID, e.l.ExternalID)
        IN  /\ Cardinality(rows) = 1
            /\ \A row \in rows : row = StoredFrom(row, e.l)

\* C2 witness: both runs have upserted the same key, with candidates that
\* differ, the second while the first run was still in flight or after it.
C2_Witness ==
    \E e \in audit.last :
        /\ e.writers = Runs
        /\ \E row \in RowsOf(listings, e.l.SourceID, e.l.ExternalID) :
              /\ row.title = SiteVersion(e.by)
              /\ row.id # e.l.ID
        /\ \E q \in Runs : q # e.by /\ SiteVersion(q) # SiteVersion(e.by)

\* C5: whenever a step stores a row for a key that had none, that row's
\* first_seen_at is the instant of the observation, its last_seen_at.
C5_FirstSeenAtInsert ==
    [][\A row \in listings' :
          RowsOf(listings, row.source_id, row.external_id) = {}
             => row.first_seen_at = row.last_seen_at]_vars

\* C7: a job record finalized by RunSource reports as new the listings it
\* received whose key had no row at merge time, and as updated the others.
C7_CountsNewByStoredKey ==
    \A r \in Runs :
        \A row \in JobRows(loc[r].job.ID) :
            row.status = "completed" =>
               /\ row.listings_found = loc[r].found
               /\ row.listings_new = loc[r].unseen
               /\ row.listings_updated = loc[r].found - loc[r].unseen

\* C8: no step removes a job record; a new record is pending or running; a
\* pending record stays or becomes running, a running one stays or becomes
\* completed or failed, and a completed or failed record is left as it is.
C8_JobLifecycle ==
    [][/\ \A row \in scrape_jobs :
             \E next \in scrape_jobs' :
                /\ next.id = row.id
                /\ row.status \in TerminalStatus => next = row
                /\ row.status = "running" => next.status \in {"running"} \cup TerminalStatus
                /\ row.status = "pending" => next.status \in {"pending", "running"}
       /\ \A next \in scrape_jobs' :
             (\A row \in scrape_jobs : row.id # next.id)
                => next.status \in {"pending", "running"}]_vars

\* C8 witness: a failed record and a completed record are stored, and a
\* later invocation has since finalized a record of its own.
C8_Witness ==
    /\ audit.invocations = MaxInvocations
    /\ pc[1] = "returned"
    /\ audit.updated[1] # <<>>
    /\ \E old \in scrape_jobs :
          /\ old.status \in TerminalStatus
          /\ old.id \notin audit.inserted[1]
          /\ \E new \in scrape_jobs :
                /\ new.id \in audit.inserted[1]
                /\ new.status \in TerminalStatus
                /\ new.status # old.status
                /\ new.source_id = old.source_id

\* C9: an invocation that ran its sources with a healthy database and an
\* un-cancelled context has inserted one job record per source run and
\* updated each inserted record exactly once.
C9_OneRecordPerRun ==
    \A r \in Runs :
        (/\ pc[r] = "returned"
         /\ audit.scrapes[r] >= 1
         /\ ~audit.dbFailed[r]
         /\ ~ctxDone[r])
        => /\ Cardinality(audit.inserted[r]) = audit.scrapes[r]
           /\ Len(audit.updated[r]) = audit.scrapes[r]
           /\ \A id \in audit.inserted[r] :
                 Cardinality({i \in 1..Len(audit.updated[r]) : audit.updated[r][i] = id}) = 1

\* RunSource has returned to the caller of run r.
RunSourceReturned(r) ==
    \/ loc[r].kind = "direct" /\ pc[r] = "returned"
    \/ loc[r].kind = "worker" /\ pc[r] = "w_update"
    \/ loc[r].kind = "all" /\ pc[r] = "ra_next" /\ loc[r].idx > 1

\* C10: once RunSource has returned, the job record of that invocation is
\* stored and is either completed, or failed with an error message.
C10_TerminalRecordLeft ==
    \A r \in Runs :
        RunSourceReturned(r) =>
           /\ JobRows(loc[r].job.ID) # {}
           /\ \A row \in JobRows(loc[r].job.ID) :
                 \/ row.status = "completed"
                 \/ row.status = "failed" /\ row.error_message \notin {NullText, ""}

\* C11: when the scraper of a run ended on a fatal error, the job record
\* RunSource finalized for that run is failed and carries an error message.
C11_FatalRunFailed ==
    \A r \in Runs :
        (RunSourceReturned(r) /\ producer[r].fatal) =>
            \A row \in JobRows(loc[r].job.ID) :
                row.status \in TerminalStatus =>
                    /\ row.status = "failed"
                    /\ row.error_message \notin {NullText, ""}

\* C12: when an Upsert of the run failed, RunSource returns an error and the
\* run's job record, if stored, is failed.
C12_UpsertFailureSurfaced ==
    \A r \in Runs :
        (RunSourceReturned(r) /\ loc[r].upsertFailed) =>
            /\ loc[r].err # NoError
            /\ \A row \in JobRows(loc[r].job.ID) : row.status = "failed"

\* The slugs of the sources RunAll has to run, in list order.
ActiveSlugs == [i \in 1..Len(ListActive) |-> ListActive[i].Slug]

\* The slugs of the RunSource calls of run r that have returned, in order.
RanSlugs(r) == [i \in 1..Len(loc[r].ran) |-> loc[r].ran[i].slug]

\* C13: a RunAll whose listing succeeded calls RunSource for the active
\* sources in list order, the next call only after the previous returned,
\* whatever the previous calls returned; it returns nil after the last
\* source, and an error (with no source run) only when the listing failed.
C13_RunAllEverySource ==
    \A r \in Runs :
        loc[r].kind = "all" =>
            /\ \A i \in 1..Len(loc[r].ran) :
                  i <= Len(ActiveSlugs) /\ RanSlugs(r)[i] = ActiveSlugs[i]
            /\ pc[r] \in {"rs_get", "rs_create", "rs_loop", "rs_upsert"}
                  => Len(loc[r].ran) = loc[r].idx - 2
            /\ pc[r] = "ra_next" => Len(loc[r].ran) = loc[r].idx - 1
            /\ pc[r] = "returned" =>
                  IF loc[r].idx >= 1
                  THEN loc[r].err = NoError /\ RanSlugs(r) = ActiveSlugs
                  ELSE loc[r].err = "failed to list sources" /\ loc[r].ran = <<>>

\* C13 witness: RunAll returned nil after running every source, the first
\* of which had failed.
C13_Witness ==
    \E r \in Runs :
        /\ loc[r].kind = "all"
        /\ pc[r] = "returned"
        /\ loc[r].err = NoError
        /\ Len(loc[r].ran) = Len(ActiveSlugs)
        /\ Len(loc[r].ran) >= 2
        /\ loc[r].ran[1].err # NoError

\* C14 as claimed: a RunSource call for a slug without a registered scraper
\* returns 'no scraper registered', starts no scraper and leaves listings
\* and scrape_jobs as they were.
C14_NoScraperRegistered ==
    [][\A r \in Runs :
          (pc[r] = "rs_get" /\ loc[r].slug \notin Scrapers /\ pc'[r] # "rs_get") =>
             /\ loc'[r].err = "no scraper registered"
             /\ pc'[r] = ReturnPc(loc[r].kind)
             /\ producer' = producer
             /\ listings' = listings
             /\ scrape_jobs' = scrape_jobs]_vars

\* C14 amended: such a call returns an error, 'source not found' when
\* GetBySlug yields no source (no such row, or the query failed) and 'no
\* scraper registered' otherwise; it starts no scraper and leaves listings
\* and scrape_jobs as they were.
C14_UnregisteredSlugFails ==
    [][\A r \in Runs :
          (pc[r] = "rs_get" /\ loc[r].slug \notin Scrapers /\ pc'[r] # "rs_get") =>
             /\ loc'[r].err =
                   IF SourceBySlug(loc[r].slug) = {} \/ audit'.nfaults > audit.nfaults
                      \/ ctxDone[r]
                   THEN "source not found" ELSE "no scraper registered"
             /\ pc'[r] = ReturnPc(loc[r].kind)
             /\ producer' = producer
             /\ listings' = listings
             /\ scrape_jobs' = scrape_jobs]_vars

\* C14 witness: with listings and job records stored, RunSource has returned
\* 'no scraper registered' for the source that has no scraper.
C14_Witness ==
    \E r \in Runs :
        /\ RunSourceReturned(r)
        /\ loc[r].slug \notin Scrapers
        /\ loc[r].err = "no scraper registered"
        /\ listings # {}
        /\ scrape_jobs # {}

\* C17: once the context of a run is cancelled, its drain loop takes no
\* further listing on to an Upsert call (lines 98-110 run straight from the
\* receive to the call).
C17_NoUpsertAfterCancel ==
    [][\A r \in Runs :
          (ctxDone[r] /\ pc[r] = "rs_loop") => pc'[r] # "rs_upsert"]_vars

\* C29: when RunSource leaves its drain loop to finalize the ScrapeJob, both
\* streams are closed and empty: no error the scraper sent is left unread.
C29_ErrorsDrained ==
    [][\A r \in Runs :
          (pc[r] = "rs_loop" /\ pc'[r] \notin {"rs_loop", "rs_upsert"}) =>
             /\ chans[r].listingsClosed /\ chans[r].listings = <<>>
             /\ chans[r].errorsClosed /\ chans[r].errors = <<>>]_vars

(***************************************************************************)
(* Properties of a scraper run.                                            *)
(***************************************************************************)
\* C15: in every run of either scraper, whichever way the run ends, both
\* streams are eventually closed.
C15_StreamsClosed == <>(chans.listingsClosed /\ chans.errorsClosed)

\* C15 witness: both streams are closed after a run that ended on the
\* cancellation of its context.
C15_Witness ==
    /\ chans.listingsClosed /\ chans.errorsClosed
    /\ ctxDone
    /\ audit.exit = "cancel"

\* C16: after the cancellation the scraper completes at most the one
\* operation it is in: it does not send two listings, start two page
\* fetches, or send a listing and start a page fetch.
C16_StopsOnCancel == audit.late <= 1

\* C18: once the reader has stopped and the context is cancelled, the
\* goroutine ends: no send keeps it blocked.
C18_ProducerNotLeaked == (pc = "stalled" /\ ctxDone) ~> (producer.pc = "done")

\* C18 witness: the goroutine has ended on ctx.Done() with the listing
\* stream full and the reader stopped.
C18_Witness ==
    /\ producer.pc = "done"
    /\ pc = "stalled"
    /\ Len(chans.listings) = ListingsCap
    /\ audit.exit = "cancel"

\* C19: a run with MaxListings = N > 0 on a site with more than N valid
\* listings, not cancelled and without a failed fetch, has emitted exactly N
\* listings when it ends.
C19_EmitsExactlyCap ==
    (/\ producer.pc = "done"
     /\ producer.opts.MaxListings > 0
     /\ loc.size * loc.pages > producer.opts.MaxListings
     /\ ~ctxDone
     /\ audit.exit # "fatal")
    => producer.count = producer.opts.MaxListings

\* C20: a run fetches at most maxPages pages and none after an empty page;
\* a run that ended for lack of listings on a site with fewer than maxPages
\* full pages has fetched the empty page.
C20_PagesBounded ==
    /\ audit.fetched <= producer.maxPages
    /\ ~audit.afterEmpty
    /\ (/\ producer.pc = "done"
        /\ audit.exit = "end"
        /\ loc.pages < producer.maxPages) => audit.emptyFetched
\* C21: when the browser scraper renders a page that carries a block marker
\* it sends exactly one error, the only one of the run, and ends the run:
\* from then on it sends no listing and no error and fetches no page, and
\* the listings already sent stay on the stream for the reader.
C21_BlockedPageFatal ==
    [][/\ (audit'.exit = "blocked" /\ audit.exit # "blocked") =>
             /\ chans.errors = <<>>
             /\ chans'.errors = <<"blocked">>
             /\ chans'.listings = chans.listings
             /\ producer'.pc = "unwind"
             /\ producer'.count = producer.count
       /\ audit.exit = "blocked" =>
             /\ producer'.pc \in {"unwind", "closing", "done"}
             /\ producer'.count = producer.count
             /\ audit'.fetched = audit.fetched
             /\ audit'.exit = "blocked"
             /\ \/ chans'.errors = chans.errors
                \/ chans.errors # <<>> /\ chans'.errors = Tail(chans.errors)
             /\ \/ chans'.listings = chans.listings
                \/ chans.listings # <<>> /\ chans'.listings = Tail(chans.listings)]_vars

\* C21 witness: a run ended by a blocked second page, with the listings of
\* the first page and the one error still on the closed streams.
C21_Witness ==
    /\ producer.impl = "rod"
    /\ producer.pc = "done"
    /\ audit.exit = "blocked"
    /\ audit.fetched = 2
    /\ producer.count > 0
    /\ Len(chans.listings) = producer.count
    /\ chans.errors = <<"blocked">>

\* C27: with max_listings = N > 0 a run never sends more than N listings;
\* with max_listings = 0 the cap never holds a listing back: a run that is
\* neither cancelled nor ended by an error sends every listing of every
\* page it reaches.
C27_NeverMoreThanCap ==
    /\ producer.opts.MaxListings > 0 =>
          /\ producer.count <= producer.opts.MaxListings
          /\ \A i \in 1..Len(chans.listings) :
                chans.listings[i].seq <= producer.opts.MaxListings
    /\ (/\ producer.opts.MaxListings = 0
        /\ producer.pc = "done" /\ audit.exit = "end" /\ ~ctxDone) =>
          producer.count =
             loc.size * (IF producer.impl = "colly" /\ loc.pages > CollyMaxDepth
                         THEN CollyMaxDepth ELSE loc.pages)

\* C27 witness: a capped run has sent its N listings and passes over a
\* further card of the page.
C27_Witness ==
    /\ producer.opts.MaxListings > 0
    /\ producer.count = producer.opts.MaxListings
    /\ producer.left > 0
    /\ producer.pc \in {"cards", "emit"}
    /\ loc.size > producer.opts.MaxListings

\* C28: once the max_listings-th listing has been sent no page fetch is
\* started.
C28_NoFetchAfterCap ==
    [][audit'.fetched > audit.fetched => ~CapReached]_vars

\* C30: the listings are sent in page order, every listing of page k before
\* any of page k + 1, and handed to Upsert in exactly the order in which
\* they were sent: the listing upserted last and the listings waiting on
\* the stream are consecutive sends of non-decreasing pages, and the first
\* listing upserted is the first one sent.
C30_TraversalOrder ==
    LET inOrder == hist \o chans.listings
    IN  /\ \A i \in 1..(Len(inOrder) - 1) :
              /\ inOrder[i + 1].seq = inOrder[i].seq + 1
              /\ inOrder[i].page <= inOrder[i + 1].page
        /\ inOrder # <<>> => inOrder[Len(inOrder)].seq = producer.count
        /\ inOrder # <<>> => inOrder[Len(inOrder)].page <= producer.pageNum
        /\ hist = <<>> => producer.count = Len(chans.listings)

\* C30 witness: a listing of the second page was upserted after one of the
\* first page had been, and listings are waiting behind it.
C30_Witness ==
    /\ hist # <<>>
    /\ hist[1].page = 2
    /\ hist[1].seq > 1
    /\ chans.listings # <<>>
    /\ loc.size < ListingsCap

(***************************************************************************)
(* Properties of the on-demand trigger.                                    *)
(***************************************************************************)
\* The accepted calls of `key` among the answered requests `among`.
AcceptedCalls(key, among) ==
    {i \in among : hist[i].key = key /\ hist[i].allowed}

\* C22: for every key and every window [from, from + window) at most `limit`
\* calls of Allow return true (one when the limit is that of the on-demand
\* refresh), and whether a call is allowed depends on the earlier calls of
\* its own key only: it is allowed exactly when fewer than `limit` calls of
\* that key were allowed less than one window before it.
C22_AtMostLimitPerWindow ==
    /\ \A key \in LimiterKeys, from \in (0 - WindowLen)..MaxNow :
          Cardinality({i \in AcceptedCalls(key, 1..Len(hist)) :
                          from <= hist[i].at /\ hist[i].at < from + producer.window})
             <= producer.limit
    /\ \A i \in 1..Len(hist) :
          hist[i].allowed <=>
             Cardinality({j \in AcceptedCalls(hist[i].key, 1..(i - 1)) :
                             hist[j].at > hist[i].at - producer.window})
                < producer.limit

\* C22 witness: with limit one, a key was accepted, rejected later in the
\* window, and the other key accepted in between.
C22_Witness ==
    /\ producer.limit = RefreshLimit
    /\ \E i, j, k \in 1..Len(hist) :
          /\ i < j /\ j < k
          /\ hist[i].key = hist[k].key /\ hist[j].key # hist[i].key
          /\ hist[i].allowed /\ hist[j].allowed /\ ~hist[k].allowed
          /\ hist[k].at > hist[i].at

\* C23: a trigger the limiter rejects is answered 429, inserts no job, and
\* does not extend the wait: a trigger is accepted whenever every accepted
\* trigger of its key is at least one window old, whatever was rejected in
\* between.
C23_RejectedTryLater ==
    [][Len(hist') > Len(hist) =>
          LET req == hist'[Len(hist')] IN
          /\ ~req.allowed => (req.status = StatusTooManyRequests /\ chans' = chans)
          /\ (\A j \in AcceptedCalls(req.key, 1..Len(hist)) :
                 hist[j].at + producer.window <= req.at) => req.allowed]_vars

\* C23 witness: a key accepted, rejected inside the window, and accepted
\* again exactly one window after the accepted trigger.
C23_Witness ==
    \E i, j, k \in 1..Len(hist) :
        /\ i < j /\ j < k
        /\ hist[i].key = hist[j].key /\ hist[j].key = hist[k].key
        /\ hist[i].allowed /\ ~hist[j].allowed /\ hist[k].allowed
        /\ hist[j].at > hist[i].at
        /\ hist[k].at = hist[i].at + producer.window
        /\ hist[j].status = StatusTooManyRequests
        /\ Len(chans) = 2

(***************************************************************************)
(* Properties of the staleness sweep.                                      *)
(***************************************************************************)
\* C24: MarkStale(source, cutoff) keeps every row, turns is_active false on
\* exactly the active rows of the source whose last_seen_at is before the
\* cutoff, changes no other column of any row, and returns the number of
\* rows it turned.
C24_MarkStaleFrame ==
    [][(Len(hist') > Len(hist) /\ hist'[Len(hist')].op = "stale") =>
          LET call == hist'[Len(hist')]
              Swept(row) == /\ row.source_id = call.source
                            /\ row.is_active
                            /\ row.last_seen_at < call.beforeTime
          IN  /\ Cardinality(listings') = Cardinality(listings)
              /\ \A row \in listings :
                    IF Swept(row)
                    THEN [row EXCEPT !.is_active = FALSE] \in listings'
                    ELSE row \in listings'
              /\ call.affected = Cardinality({row \in listings : Swept(row)})]_vars

\* C24 witness: a sweep turned one row and left alone an active row of the
\* other source that is older than the cutoff.
C24_Witness ==
    /\ hist # <<>>
    /\ hist[Len(hist)].op = "stale"
    /\ hist[Len(hist)].affected = 1
    /\ \E row \in listings :
          /\ row.source_id = hist[Len(hist)].source
          /\ ~row.is_active
    /\ \E row \in listings :
          /\ row.source_id # hist[Len(hist)].source
          /\ row.is_active
          /\ row.last_seen_at < hist[Len(hist)].beforeTime

\* A stored listing of external id ext is active although no run has
\* observed it for longer than the staleness window.
StaleActive(ext) ==
    \E row \in listings :
        /\ row.external_id = ext
        /\ row.is_active
        /\ clock - row.last_seen_at > StaleWindow

SuffixScale(suffix) ==
    IF suffix \in {"m", "M"} THEN 6 ELSE IF suffix \in {"k", "K"} THEN 3 ELSE 0

\* C26: parsePrice gives 125000000 for '$1,250,000', 50000000 for '$500K',
\* 100000000 for '$1M - $2M' and no value for 'Call for price'; an amount is
\* scaled by the k or m that is its suffix and by nothing else, whatever
\* words follow it.
C26_ParsePriceRules ==
    pc = "parsed" =>
        /\ loc.text = "$1,250,000" => audit = Decimal(125000000, 0)
        /\ loc.text = "$500K" => audit = Decimal(50000000, 0)
        /\ loc.text = "$1M - $2M" => audit = Decimal(100000000, 0)
        /\ loc.text = "Call for price" => audit = Decimal(0, 0)
        /\ audit = Decimal(loc.cents, SuffixScale(loc.suffix))

(***************************************************************************)
(* SpecNavigate: one NavigateWithRetry call.  loc holds the call's frame   *)
(* (maxRetries, i, err, lastErr), pc its position, clock the seconds it    *)
(* has slept, hist one record per attempt and audit the value returned.    *)
(***************************************************************************)
RetryBound == 3
RetryCounts == 0 .. RetryBound
NavigateErrors == {"navigation failed", "navigation timed out"}
StableErrors == {"page not stable"}

InitNavigate ==
    /\ listings = {}
    /\ scrape_jobs = {}
    /\ clock = 0
    /\ hist = <<>>
    /\ pc = "navigate"
    /\ \E maxRetries \in RetryCounts :
          loc = [maxRetries |-> maxRetries, i |-> 0,
                 err |-> NoError, lastErr |-> NoError]
    /\ chans = <<>>
    /\ producer = NULL
    /\ ctxDone = FALSE
    /\ audit = [returned |-> FALSE, ret |-> NoError]

\* err := page.Navigate(url), inside `for i := 0; i < maxRetries; i++`.
PageNavigate(err) ==
    /\ pc = "navigate"
    /\ loc.i < loc.maxRetries
    /\ loc' = [loc EXCEPT !.err = err]
    /\ pc' = IF err = NoError THEN "waitStable" ELSE "sleep"
    /\ UNCHANGED <<listings, scrape_jobs, clock, hist, chans, producer,
                   ctxDone, audit>>

\* err = page.WaitStable(2 * time.Second); `return nil` when it is nil.
PageWaitStable(err) ==
    /\ pc = "waitStable"
    /\ loc' = [loc EXCEPT !.err = err]
    /\ IF err = NoError
       THEN /\ pc' = "done"
            /\ hist' = Append(hist, [attempt |-> loc.i, err |-> NoError,
                                     slept |-> 0])
            /\ audit' = [returned |-> TRUE, ret |-> NoError]
       ELSE /\ pc' = "sleep"
            /\ UNCHANGED <<hist, audit>>
    /\ UNCHANGED <<listings, scrape_jobs, clock, chans, producer, ctxDone>>

\* lastErr = err; time.Sleep(time.Duration(i+1) * time.Second); i++.
NavigateSleep ==
    /\ pc = "sleep"
    /\ loc' = [loc EXCEPT !.lastErr = loc.err, !.i = loc.i + 1]
    /\ clock' = clock + (loc.i + 1)
    /\ hist' = Append(hist, [attempt |-> loc.i, err |-> loc.err,
                             slept |-> loc.i + 1])
    /\ pc' = "navigate"
    /\ UNCHANGED <<listings, scrape_jobs, chans, producer, ctxDone, audit>>

\* The loop condition fails: `return lastErr`.
NavigateReturn ==
    /\ pc = "navigate"
    /\ ~(loc.i < loc.maxRetries)
    /\ pc' = "done"
    /\ audit' = [returned |-> TRUE, ret |-> loc.lastErr]
    /\ UNCHANGED <<listings, scrape_jobs, clock, hist, loc, chans, producer,
                   ctxDone>>

NextNavigate ==
    \/ \E err \in NavigateErrors \cup {NoError} : PageNavigate(err)
    \/ \E err \in StableErrors \cup {NoError} : PageWaitStable(err)
    \/ NavigateSleep
    \/ NavigateReturn

SpecNavigate == InitNavigate /\ [][NextNavigate]_vars

(***************************************************************************)
(* Properties of NavigateWithRetry.                                        *)
(***************************************************************************)
\* C31: a returned NavigateWithRetry call made at most maxRetries attempts,
\* slept i+1 seconds after the failed attempt of index i, returned nil if
\* and only if one of its attempts navigated and settled, and otherwise
\* returned the error of its last attempt, for every maxRetries >= 0.
C31_NavigateWithRetry ==
    audit.returned =>
        /\ Len(hist) <= loc.maxRetries
        /\ \A k \in 1 .. Len(hist) :
              hist[k].err # NoError => hist[k].slept = hist[k].attempt + 1
        /\ audit.ret = NoError <=>
              \E k \in 1 .. Len(hist) : hist[k].err = NoError
        /\ audit.ret # NoError =>
              /\ hist # <<>>
              /\ audit.ret = hist[Len(hist)].err

(***************************************************************************)
(* SpecPool: the browser pool lending pages to concurrent callers.         *)
(* producer is the Pool (mu: the caller holding p.mu, 0 when unlocked),    *)
(* chans the pages the browser has created, pc[c] caller c's position in   *)
(* GetPage and loc[c] its frame and the result of its last call.           *)
(***************************************************************************)
MaxGetPage == 2
Callers == {1, 2}
Unlocked == 0
NoPage == 0
Configuring == {"stealthPage", "SetViewport", "SetUserAgent", "Evaluate"}

InitPool ==
    /\ listings = {}
    /\ scrape_jobs = {}
    /\ clock = 0
    /\ hist = <<>>
    /\ pc = [c \in Callers |-> "idle"]
    /\ loc = [c \in Callers |->
                [calls |-> 0, page |-> NoPage,
                 ret |-> [page |-> NoPage, err |-> NoError]]]
    /\ chans = <<>>
    /\ producer = [mu |-> Unlocked]
    /\ ctxDone = FALSE
    /\ audit = NULL

\* A caller (a scraper's goroutine) calls s.pool.GetPage().
GetPageCall(c) ==
    /\ pc[c] = "idle"
    /\ loc[c].calls < MaxGetPage
    /\ loc' = [loc EXCEPT ![c].calls = @ + 1, ![c].page = NoPage,
                          ![c].ret = [page |-> NoPage, err |-> NoError]]
    /\ pc' = [pc EXCEPT ![c] = "Lock"]
    /\ UNCHANGED <<listings, scrape_jobs, clock, hist, chans, producer,
                   ctxDone, audit>>

\* p.mu.Lock(): proceeds only while no other call holds the mutex.
GetPageLock(c) ==
    /\ pc[c] = "Lock"
    /\ producer.mu = Unlocked
    /\ producer' = [producer EXCEPT !.mu = c]
    /\ pc' = [pc EXCEPT ![c] = "stealthPage"]
    /\ UNCHANGED <<listings, scrape_jobs, clock, hist, loc, chans, ctxDone,
                   audit>>

\* The return statements of GetPage: the result is handed to the caller and
\* the deferred p.mu.Unlock() runs.
GetPageReturnLeakLock(c, page, err) ==
    /\ loc' = [loc EXCEPT ![c].ret = [page |-> page, err |-> err]]
    /\ pc' = [pc EXCEPT ![c] = "idle"]
    /\ producer' = IF err = NoError THEN [producer EXCEPT !.mu = Unlocked]
                   ELSE producer
    /\ hist' = Append(hist, [caller |-> c, page |-> page, err |-> err])

GetPageReturn(c, page, err) ==
    /\ loc' = [loc EXCEPT ![c].ret = [page |-> page, err |-> err]]
    /\ pc' = [pc EXCEPT ![c] = "idle"]
    /\ producer' = [producer EXCEPT !.mu = Unlocked]
    /\ hist' = Append(hist, [caller |-> c, page |-> page, err |-> err])

\* page, err := stealth.Page(p.browser).
GetPageStealthPage(c, ok) ==
    /\ pc[c] = "stealthPage"
    /\ IF ok
       THEN /\ chans' = Append(chans, [owner |-> c, call |-> loc[c].calls,
                                       open |-> TRUE, viewport |-> FALSE,
                                       userAgent |-> FALSE,
                                       evasion |-> FALSE])
            /\ loc' = [loc EXCEPT ![c].page = Len(chans) + 1]
            /\ pc' = [pc EXCEPT ![c] = "SetViewport"]
            /\ UNCHANGED <<producer, hist>>
       ELSE /\ GetPageReturn(c, NoPage, "stealth page failed")
            /\ UNCHANGED chans
    /\ UNCHANGED <<listings, scrape_jobs, clock, ctxDone, audit>>

\* page.SetViewport(...); on error page.Close() and return nil, err.
GetPageSetViewport(c, ok) ==
    /\ pc[c] = "SetViewport"
    /\ IF ok
       THEN /\ chans' = [chans EXCEPT ![loc[c].page].viewport = TRUE]
            /\ pc' = [pc EXCEPT ![c] = "SetUserAgent"]
            /\ UNCHANGED <<loc, producer, hist>>
       ELSE /\ chans' = [chans EXCEPT ![loc[c].page].open = FALSE]
            /\ GetPageReturn(c, NoPage, "set viewport failed")
    /\ UNCHANGED <<listings, scrape_jobs, clock, ctxDone, audit>>

\* page.SetUserAgent(...); on error page.Close() and return nil, err.
GetPageSetUserAgent(c, ok) ==
    /\ pc[c] = "SetUserAgent"
    /\ IF ok
       THEN /\ chans' = [chans EXCEPT ![loc[c].page].userAgent = TRUE]
            /\ pc' = [pc EXCEPT ![c] = "Evaluate"]
            /\ UNCHANGED <<loc, producer, hist>>
       ELSE /\ chans' = [chans EXCEPT ![loc[c].page].open = FALSE]
            /\ GetPageReturn(c, NoPage, "set user agent failed")
    /\ UNCHANGED <<listings, scrape_jobs, clock, ctxDone, audit>>

\* _, _ = page.Evaluate(...): the result is ignored; return page, nil.
GetPageEvaluate(c, ok) ==
    /\ pc[c] = "Evaluate"
    /\ chans' = [chans EXCEPT ![loc[c].page].evasion = ok]
    /\ GetPageReturn(c, loc[c].page, NoError)
    /\ UNCHANGED <<listings, scrape_jobs, clock, ctxDone, audit>>

NextPool ==
    \E c \in Callers :
        \/ GetPageCall(c)
        \/ GetPageLock(c)
        \/ \E ok \in BOOLEAN : GetPageStealthPage(c, ok)
        \/ \E ok \in BOOLEAN : GetPageSetViewport(c, ok)
        \/ \E ok \in BOOLEAN : GetPageSetUserAgent(c, ok)
        \/ \E ok \in BOOLEAN : GetPageEvaluate(c, ok)

SpecPool == InitPool /\ [][NextPool]_vars

(***************************************************************************)
(* Properties of the browser pool.                                         *)
(***************************************************************************)
\* The pages created by caller c's latest GetPage call.
PagesOfCall(c) ==
    {k \in 1 .. Len(chans) :
        chans[k].owner = c /\ chans[k].call = loc[c].calls}

\* C32: at most one GetPage call is configuring a page at any time; the
\* pool's mutex is held exactly while a call is configuring, so it is free
\* after every return; a call that returned an error returned no page and
\* closed the page it had created, and a call that returned a page returned
\* an open one with its viewport and user agent set.
C32_GetPageExclusive ==
    /\ Cardinality({c \in Callers : pc[c] \in Configuring}) <= 1
    /\ \A c \in Callers : producer.mu = c <=> pc[c] \in Configuring
    /\ producer.mu \in Callers \cup {Unlocked}
    /\ \A c \in Callers :
          pc[c] = "idle" /\ loc[c].calls > 0 =>
              IF loc[c].ret.err # NoError
              THEN /\ loc[c].ret.page = NoPage
                   /\ \A k \in PagesOfCall(c) : ~chans[k].open
              ELSE /\ PagesOfCall(c) = {loc[c].ret.page}
                   /\ chans[loc[c].ret.page].open
                   /\ chans[loc[c].ret.page].viewport
                   /\ chans[loc[c].ret.page].userAgent

\* C32 witness: one caller's call failed after its page was created and
\* closed it, and the other caller holds the lock and is configuring.
C32_Witness ==
    \E c \in Callers : \E d \in Callers \ {c} :
        /\ pc[c] = "idle"
        /\ loc[c].ret.err # NoError
        /\ PagesOfCall(c) # {}
        /\ pc[d] = "SetUserAgent"
        /\ producer.mu = d
        /\ hist # <<>>
        /\ hist[Len(hist)].caller = c

(***************************************************************************)
(* SpecParse: the records of one search page turned into listings and      *)
(* sent.  loc is the call (the scraper, the page's records, MaxListings),  *)
(* producer the goroutine (count, the work left on the page), chans the    *)
(* listings sent so far, each with the index of the record it came from,   *)
(* and audit the records the parsers returned nil for.                     *)
(***************************************************************************)
MaxRecords == 2
BaseURL == "https://www.bizbuysell.com"
Alnums == Uppers \o Lowers \o Digits

NilListing == [nil |-> TRUE]
NewListing(externalID, url, title) ==
    [nil |-> FALSE, ExternalID |-> externalID, URL |-> url, Title |-> title]

\* The longest prefix of s made of digits.
RECURSIVE DigitPrefix(_)
DigitPrefix(s) ==
    IF s = "" \/ IndexOf(Digits, Head(s)) = 0 THEN ""
    ELSE Head(s) \o DigitPrefix(Tail(s))

\* FindStringSubmatch of lead(\d+)trail, or lead(\d+)$ when anchored: the
\* group of the leftmost match, "" without a match.
RECURSIVE FindDigits(_, _, _, _)
FindDigits(s, lead, trail, anchored) ==
    IF s = "" THEN ""
    ELSE LET rest == SubSeq(s, Len(lead) + 1, Len(s))
             d == DigitPrefix(rest)
             after == SubSeq(rest, Len(d) + 1, Len(rest))
         IN  IF /\ HasPrefix(s, lead)
                /\ d # ""
                /\ HasPrefix(after, trail)
                /\ anchored => after = ""
             THEN d
             ELSE FindDigits(Tail(s), lead, trail, anchored)

\* The patterns `listing-(\d+)`, `-(\d+)\.aspx` and `/(\d+)$`, in this order.
extractBizBuySellID(url) ==
    IF FindDigits(url, "listing-", "", FALSE) # ""
    THEN FindDigits(url, "listing-", "", FALSE)
    ELSE IF FindDigits(url, "-", ".aspx", FALSE) # ""
    THEN FindDigits(url, "-", ".aspx", FALSE)
    ELSE FindDigits(url, "/", "", TRUE)

\* regexp `[^a-zA-Z0-9]+`, ReplaceAllString(url, "-").
RECURSIVE ReplaceNonAlnum(_, _)
ReplaceNonAlnum(s, inRun) ==
    IF s = "" THEN ""
    ELSE IF IndexOf(Alnums, Head(s)) > 0
    THEN Head(s) \o ReplaceNonAlnum(Tail(s), FALSE)
    ELSE (IF inRun THEN "" ELSE "-") \o ReplaceNonAlnum(Tail(s), TRUE)

FullURL(url) == IF HasPrefix(url, "http") THEN url ELSE BaseURL \o url

\* The first of the texts that is not blank, trimmed; "" when all are.
RECURSIVE FirstTrimmed(_)
FirstTrimmed(texts) ==
    IF texts = <<>> THEN ""
    ELSE IF TrimSpace(Head(texts)) # "" THEN TrimSpace(Head(texts))
    ELSE FirstTrimmed(Tail(texts))

\* The first of the texts that is not empty, then trimmed; "" without one.
RECURSIVE FirstNonEmpty(_)
FirstNonEmpty(texts) ==
    IF texts = <<>> THEN ""
    ELSE IF Head(texts) # "" THEN TrimSpace(Head(texts))
    ELSE FirstNonEmpty(Tail(texts))

\* BizBuySellScraper.parseListingCard
parseListingCardKeepUntitled(e) ==
    IF e.href = "" THEN NilListing
    ELSE IF extractBizBuySellID(e.href) = "" THEN NilListing
    ELSE NewListing(extractBizBuySellID(e.href), FullURL(e.href),
                    FirstTrimmed(e.titles))

parseListingCard(e) ==
    IF e.href = "" THEN NilListing
    ELSE IF extractBizBuySellID(e.href) = "" THEN NilListing
    ELSE IF FirstTrimmed(e.titles) = "" THEN NilListing
    ELSE NewListing(extractBizBuySellID(e.href), FullURL(e.href),
                    FirstTrimmed(e.titles))

\* BizBuySellScraper.parseDataListing
parseDataListing(e) ==
    IF e.dataId = "" THEN NilListing
    ELSE IF e.href = "" THEN NilListing
    ELSE IF FirstTrimmed(e.titles) = "" THEN NilListing
    ELSE NewListing(e.dataId, FullURL(e.href), FirstTrimmed(e.titles))

\* BizBuySellRodScraper.parseListingElement
parseListingElement(el) ==
    LET url == FullURL(el.href)
        title == IF FirstNonEmpty(el.titles) # "" THEN FirstNonEmpty(el.titles)
                 ELSE TrimSpace(el.linkText)
    IN  IF el.href = "" THEN NilListing
        ELSE IF extractBizBuySellID(url) = "" THEN NilListing
        ELSE IF title = "" THEN NilListing
        ELSE NewListing(extractBizBuySellID(url), url, title)

\* BizBuySellRodScraper.parseJSONListing: url and name of the item.
parseJSONListing(item) ==
    IF item.href = "" THEN NilListing
    ELSE IF item.titles[1] = "" THEN NilListing
    ELSE NewListing(IF extractBizBuySellID(item.href) # ""
                    THEN extractBizBuySellID(item.href)
                    ELSE ReplaceNonAlnum(item.href, FALSE),
                    item.href, item.titles[1])

\* The link loop of parseFromPageData for one link, seen being seenIDs.
parseLink(link, seen) ==
    IF extractBizBuySellID(link.href) = "" THEN NilListing
    ELSE IF extractBizBuySellID(link.href) \in seen THEN NilListing
    ELSE IF TrimSpace(link.linkText) = "" \/ Len(TrimSpace(link.linkText)) < 5
    THEN NilListing
    ELSE NewListing(extractBizBuySellID(link.href), FullURL(link.href),
                    TrimSpace(link.linkText))

\* The indices of the page's records of the given form, in page order.
RECURSIVE OfForm(_, _, _)
OfForm(page, form, k) ==
    IF k > Len(page) THEN <<>>
    ELSE (IF page[k].form = form THEN <<k>> ELSE <<>>)
         \o OfForm(page, form, k + 1)

\* The listings a parser gives for the records at idxs, nil results dropped.
RECURSIVE ParseEach(_, _, _)
ParseEach(page, idxs, form) ==
    IF idxs = <<>> THEN <<>>
    ELSE LET l == IF form = "element" THEN parseListingElement(page[Head(idxs)])
                  ELSE parseJSONListing(page[Head(idxs)])
         IN  (IF l.nil THEN <<>> ELSE <<[from |-> Head(idxs), listing |-> l]>>)
             \o ParseEach(page, Tail(idxs), form)

RECURSIVE ParseLinks(_, _, _)
ParseLinks(page, idxs, seen) ==
    IF idxs = <<>> THEN <<>>
    ELSE LET id == extractBizBuySellID(page[Head(idxs)].href)
             l == parseLink(page[Head(idxs)], seen)
         IN  (IF l.nil THEN <<>> ELSE <<[from |-> Head(idxs), listing |-> l]>>)
             \o ParseLinks(page, Tail(idxs),
                           IF id = "" THEN seen ELSE seen \cup {id})

\* BizBuySellRodScraper.parseFromPageData: the items of the JSON-LD list,
\* then the listing links.
parseFromPageData(page) ==
    ParseEach(page, OfForm(page, "item", 1), "item")
    \o ParseLinks(page, OfForm(page, "link", 1), {})

\* BizBuySellRodScraper.parseListingsFromPage: the listing elements when the
\* page has any, the page data otherwise.
parseListingsFromPage(page) ==
    IF OfForm(page, "element", 1) # <<>>
    THEN ParseEach(page, OfForm(page, "element", 1), "element")
    ELSE parseFromPageData(page)

\* The records a page can hold: what the selectors of a parser find in it.
RecordHrefs ==
    {"", "/about", "/Business-Opportunity/listing-12", "/deli-34.aspx",
     "/buy/56"}
RecordTitles == {<<"", "">>, <<" ", "Cafe">>, <<"Cafe", "">>, <<" ", " ">>}
LinkTexts == {"", " ", "Deli", "Deli for sale"}
DataIds == {"", "77"}

Records(form) ==
    IF form \in {"card", "item"}
    THEN {[form |-> form, href |-> h, titles |-> t, linkText |-> "",
           dataId |-> ""] : h \in RecordHrefs, t \in RecordTitles}
    ELSE IF form = "data"
    THEN {[form |-> form, href |-> h, titles |-> t, linkText |-> "",
           dataId |-> d] :
             h \in {"", "/buy/56"}, t \in RecordTitles, d \in DataIds}
    ELSE IF form = "element"
    THEN {[form |-> form, href |-> h, titles |-> t, linkText |-> x,
           dataId |-> ""] :
             h \in RecordHrefs, t \in RecordTitles, x \in {"", "Deli"}}
    ELSE {[form |-> form, href |-> h, titles |-> <<"", "">>, linkText |-> x,
           dataId |-> ""] :
             h \in {"/about", "/Business-Opportunity/listing-12"},
             x \in LinkTexts}

FormsOf(scraper) ==
    IF scraper = "colly" THEN {"card", "data"} ELSE {"element", "item", "link"}

Pages(scraper) ==
    UNION {[1 .. n -> UNION {Records(form) : form \in FormsOf(scraper)}] :
             n \in 1 .. MaxRecords}

ParseLimits == {0, 1}

InitParse ==
    /\ listings = {}
    /\ scrape_jobs = {}
    /\ clock = 0
    /\ hist = <<>>
    /\ \E scraper \in {"colly", "rod"} :
       \E page \in Pages(scraper) :
       \E maxListings \in ParseLimits :
          /\ loc = [scraper |-> scraper, page |-> page,
                    MaxListings |-> maxListings]
          /\ pc = IF scraper = "colly" THEN "handlers" ELSE "parse"
          /\ producer = [count |-> 0,
                         work |-> IF scraper = "colly"
                                  THEN OfForm(page, "card", 1)
                                       \o OfForm(page, "data", 1)
                                  ELSE <<>>]
    /\ chans = <<>>
    /\ ctxDone = FALSE
    /\ audit = {}

\* One call of an OnHTML handler of the colly scraper: the cap test, the
\* parser of the handler's selector, the send and count++.
ParseCollyHandler ==
    /\ pc = "handlers"
    /\ producer.work # <<>>
    /\ LET k == Head(producer.work)
           listing == IF loc.page[k].form = "card"
                      THEN parseListingCard(loc.page[k])
                      ELSE parseDataListing(loc.page[k])
       IN  IF loc.MaxListings > 0 /\ producer.count >= loc.MaxListings
           THEN /\ producer' = [producer EXCEPT !.work = Tail(@)]
                /\ UNCHANGED <<chans, audit>>
           ELSE IF listing.nil
           THEN /\ producer' = [producer EXCEPT !.work = Tail(@)]
                /\ audit' = audit \cup {k}
                /\ UNCHANGED chans
           ELSE /\ chans' = Append(chans, [from |-> k, listing |-> listing])
                /\ producer' = [producer EXCEPT !.work = Tail(@),
                                                !.count = @ + 1]
                /\ UNCHANGED audit
    /\ UNCHANGED <<listings, scrape_jobs, clock, hist, pc, loc, ctxDone>>

\* pageListings, err := s.parseListingsFromPage(page)
ParseRodPage ==
    /\ pc = "parse"
    /\ LET pageListings == parseListingsFromPage(loc.page)
       IN  /\ producer' = [producer EXCEPT !.work = pageListings]
           /\ audit' = {k \in 1 .. Len(loc.page) :
                          \A j \in 1 .. Len(pageListings) :
                              pageListings[j].from # k}
    /\ pc' = "range"
    /\ UNCHANGED <<listings, scrape_jobs, clock, hist, loc, chans, ctxDone>>

\* One iteration of `for _, listing := range pageListings`.
ParseRodSend ==
    /\ pc = "range"
    /\ producer.work # <<>>
    /\ IF loc.MaxListings > 0 /\ producer.count >= loc.MaxListings
       THEN /\ pc' = "done"
            /\ UNCHANGED <<chans, producer>>
       ELSE /\ chans' = Append(chans, Head(producer.work))
            /\ producer' = [producer EXCEPT !.work = Tail(@), !.count = @ + 1]
            /\ pc' = pc
    /\ UNCHANGED <<listings, scrape_jobs, clock, hist, loc, ctxDone, audit>>

\* The page is exhausted.
ParsePageEnd ==
    /\ pc \in {"handlers", "range"}
    /\ producer.work = <<>>
    /\ pc' = "done"
    /\ UNCHANGED <<listings, scrape_jobs, clock, hist, loc, chans, producer,
                   ctxDone, audit>>

NextParse ==
    \/ ParseCollyHandler
    \/ ParseRodPage
    \/ ParseRodSend
    \/ ParsePageEnd

SpecParse == InitParse /\ [][NextParse]_vars

(***************************************************************************)
(* Properties of the listings a scraper emits.                             *)
(***************************************************************************)
\* A record from which no external id or no title can be taken.
LacksIdOrTitle(record) ==
    LET blankTitles == \A i \in 1 .. Len(record.titles) :
                          TrimSpace(record.titles[i]) = ""
    IN  IF record.form = "card"
        THEN extractBizBuySellID(record.href) = "" \/ blankTitles
        ELSE IF record.form = "data"
        THEN record.dataId = "" \/ blankTitles
        ELSE IF record.form = "element"
        THEN \/ extractBizBuySellID(record.href) = ""
             \/ blankTitles /\ TrimSpace(record.linkText) = ""
        ELSE IF record.form = "item"
        THEN record.href = "" \/ record.titles[1] = ""
        ELSE \/ extractBizBuySellID(record.href) = ""
             \/ TrimSpace(record.linkText) = ""

\* C33: every listing sent on the listing stream has a non-empty external
\* id and a non-empty title; a record that lacks either is discarded, is not
\* sent, and is not counted towards MaxListings.
C33_EmittedHaveIdAndTitle ==
    /\ \A j \in 1 .. Len(chans) :
          /\ chans[j].listing.ExternalID # ""
          /\ chans[j].listing.Title # ""
          /\ ~LacksIdOrTitle(loc.page[chans[j].from])
    /\ producer.count = Len(chans)
    /\ loc.MaxListings > 0 => producer.count <= loc.MaxListings
    /\ pc = "done" =>
          \A k \in 1 .. Len(loc.page) :
              LacksIdOrTitle(loc.page[k]) =>
                  \/ k \in audit
                  \/ /\ loc.scraper = "colly"
                     /\ loc.MaxListings > 0
                     /\ producer.count >= loc.MaxListings

\* C33 witness: with MaxListings = 1 the first record of the page lacked a
\* title and was discarded, and the second record was sent.
C33_Witness ==
    /\ pc = "done"
    /\ loc.MaxListings = 1
    /\ Len(loc.page) = 2
    /\ extractBizBuySellID(loc.page[1].href) # ""
    /\ LacksIdOrTitle(loc.page[1])
    /\ 1 \in audit
    /\ Len(chans) = 1
    /\ chans[1].from = 2

(***************************************************************************)
(* SpecCrawl: the error stream of one crawl of the colly scraper.  The     *)
(* start page carries loc.links pagination links with distinct targets;    *)
(* any request may fail, which runs the OnError callback.  producer is the *)
(* goroutine, chans.errors the buffered error stream, audit counts the     *)
(* errors raised and dropped; the reader takes errors when it is           *)
(* scheduled, which may be never.                                          *)
(***************************************************************************)
MaxLinks == 12
CrawlLinks == {1, MaxLinks}

InitCrawl ==
    /\ listings = {}
    /\ scrape_jobs = {}
    /\ clock = 0
    /\ hist = <<>>
    /\ pc = "reading"
    /\ \E links \in CrawlLinks : loc = [links |-> links]
    /\ chans = [errors |-> <<>>, errorsClosed |-> FALSE,
                listingsClosed |-> FALSE]
    /\ producer = [pc |-> "visit", pageCount |-> 0, link |-> 0,
                   maxPages |-> DefaultMaxPages]
    /\ ctxDone = FALSE
    /\ audit = [raised |-> 0, dropped |-> 0, afterDrop |-> 0]

\* The audit after one more request was made.
Requested == [audit EXCEPT !.afterDrop = IF audit.dropped > 0 THEN @ + 1 ELSE @]

\* c.Visit(startURL): the request for the start page.
CrawlVisitStart(ok) ==
    /\ producer.pc = "visit"
    /\ producer' = [producer EXCEPT !.pc = IF ok THEN "links" ELSE "onerror"]
    /\ audit' = Requested
    /\ UNCHANGED <<listings, scrape_jobs, clock, hist, pc, loc, chans, ctxDone>>

\* The pagination handler on the next link of the start page: return at
\* maxPages, else pageCount++ and e.Request.Visit(nextURL).  The page
\* fetched lies at depth two, so its own links are refused.
CrawlFollowLink(ok) ==
    /\ producer.pc = "links"
    /\ producer.link < loc.links
    /\ IF producer.pageCount >= producer.maxPages
       THEN /\ producer' = [producer EXCEPT !.link = @ + 1]
            /\ audit' = audit
       ELSE /\ producer' = [producer EXCEPT !.link = @ + 1,
                                            !.pageCount = @ + 1,
                                            !.pc = IF ok THEN "links"
                                                   ELSE "onerror"]
            /\ audit' = Requested
    /\ UNCHANGED <<listings, scrape_jobs, clock, hist, pc, loc, chans, ctxDone>>

\* c.OnError: select { case errors <- ...: default: }.
CrawlOnErrorBlockingSend ==
    /\ producer.pc = "onerror"
    /\ Len(chans.errors) < ErrorsCap
    /\ chans' = [chans EXCEPT !.errors =
                    Append(@, [kind |-> "request error", link |-> producer.link])]
    /\ audit' = [audit EXCEPT !.raised = @ + 1]
    /\ producer' = [producer EXCEPT
                       !.pc = IF producer.link = 0 THEN "startfail" ELSE "links"]
    /\ UNCHANGED <<listings, scrape_jobs, clock, hist, pc, loc, ctxDone>>

CrawlOnError ==
    /\ producer.pc = "onerror"
    /\ IF Len(chans.errors) < ErrorsCap
       THEN /\ chans' = [chans EXCEPT !.errors =
                  Append(@, [kind |-> "request error", link |-> producer.link])]
            /\ audit' = [audit EXCEPT !.raised = @ + 1]
       ELSE /\ chans' = chans
            /\ audit' = [audit EXCEPT !.raised = @ + 1, !.dropped = @ + 1]
    /\ producer' = [producer EXCEPT
                       !.pc = IF producer.link = 0 THEN "startfail" ELSE "links"]
    /\ UNCHANGED <<listings, scrape_jobs, clock, hist, pc, loc, ctxDone>>

\* errors <- fmt.Errorf("failed to start scrape: %w", err): a blocking send.
CrawlStartFailed ==
    /\ producer.pc = "startfail"
    /\ Len(chans.errors) < ErrorsCap
    /\ chans' = [chans EXCEPT !.errors =
                    Append(@, [kind |-> "failed to start scrape", link |-> 0])]
    /\ producer' = [producer EXCEPT !.pc = "wait"]
    /\ UNCHANGED <<listings, scrape_jobs, clock, hist, pc, loc, ctxDone, audit>>

\* No link is left: c.Wait() returns.
CrawlWait ==
    /\ \/ producer.pc = "wait"
       \/ producer.pc = "links" /\ producer.link = loc.links
    /\ producer' = [producer EXCEPT !.pc = "unwind"]
    /\ UNCHANGED <<listings, scrape_jobs, clock, hist, pc, loc, chans, ctxDone,
                   audit>>

\* The deferred close(errors), then the deferred close(listings).
CrawlCloseErrors ==
    /\ producer.pc = "unwind"
    /\ chans' = [chans EXCEPT !.errorsClosed = TRUE]
    /\ producer' = [producer EXCEPT !.pc = "closing"]
    /\ UNCHANGED <<listings, scrape_jobs, clock, hist, pc, loc, ctxDone, audit>>

CrawlCloseListings ==
    /\ producer.pc = "closing"
    /\ chans' = [chans EXCEPT !.listingsClosed = TRUE]
    /\ producer' = [producer EXCEPT !.pc = "done"]
    /\ UNCHANGED <<listings, scrape_jobs, clock, hist, pc, loc, ctxDone, audit>>

\* The reader's `case err, ok := <-errs` with an error buffered.
CrawlReadError ==
    /\ pc = "reading"
    /\ chans.errors # <<>>
    /\ chans' = [chans EXCEPT !.errors = Tail(@)]
    /\ UNCHANGED <<listings, scrape_jobs, clock, hist, pc, loc, producer,
                   ctxDone, audit>>

\* The reader's `case listing, ok := <-listings` with !ok: goto done.
CrawlReadClosed ==
    /\ pc = "reading"
    /\ chans.listingsClosed
    /\ pc' = "finalized"
    /\ UNCHANGED <<listings, scrape_jobs, clock, hist, loc, chans, producer,
                   ctxDone, audit>>

NextCrawl ==
    \/ \E ok \in BOOLEAN : CrawlVisitStart(ok)
    \/ \E ok \in BOOLEAN : CrawlFollowLink(ok)
    \/ CrawlOnError
    \/ CrawlStartFailed
    \/ CrawlWait
    \/ CrawlCloseErrors
    \/ CrawlCloseListings
    \/ CrawlReadError
    \/ CrawlReadClosed

SpecCrawl == InitCrawl /\ [][NextCrawl]_vars

(***************************************************************************)
(* Properties of the request-error callback.                               *)
(***************************************************************************)
\* C34: the request-error callback never waits on the error stream: it can
\* always run, with ten undelivered errors it leaves the stream as it is
\* (the error is dropped), otherwise it appends the error, and in both
\* cases the crawl goes on to its next step.
C34_FullBufferDrops ==
    /\ [](producer.pc = "onerror" => ENABLED CrawlOnError)
    /\ [][producer.pc = "onerror" /\ producer'.pc # "onerror" =>
            /\ Len(chans.errors) = ErrorsCap =>
                  /\ chans'.errors = chans.errors
                  /\ audit'.dropped = audit.dropped + 1
            /\ Len(chans.errors) < ErrorsCap =>
                  /\ Len(chans'.errors) = Len(chans.errors) + 1
                  /\ chans'.errors[Len(chans'.errors)].kind = "request error"
                  /\ audit'.dropped = audit.dropped
            /\ producer'.pc \in {"links", "startfail"}]_vars
    /\ [](Len(chans.errors) <= ErrorsCap)

\* C34 witness: an error was dropped at a full buffer, the crawl made
\* further requests after it and ran to its end.
C34_Witness ==
    /\ audit.dropped > 0
    /\ audit.afterDrop > 0
    /\ Len(chans.errors) = ErrorsCap
    /\ producer.pc = "done"

(***************************************************************************)
(* SpecRefresh: from the job arguments to the scraper's options.  chans is *)
(* the river queue, pc[w] and loc[w] the job worker w is working, hist the *)
(* Scrape calls made so far, each with the arguments of its job and the    *)
(* options the scraper received, and audit the number of jobs inserted.    *)
(***************************************************************************)
MaxJobs == 3
JobLimits == {0, 5}

\* `jobs add` of the scraper command: the job arguments it inserts.
AddedJob(slug, limit) ==
    IF slug = "" THEN [kind |-> "scrape_all", SourceSlug |-> "", FullScrape |-> FALSE]
    ELSE [kind |-> "scrape", SourceSlug |-> slug, MaxListings |-> limit,
          FullScrape |-> TRUE]

\* The options RunSource(ctx, slug, limit) hands to scraper.Scrape.
RunSourceOptions(limit) == [FullScrape |-> TRUE, MaxListings |-> limit]

\* The Scrape calls of RunSource(ctx, slug, limit) for job args.
RunSourceScrapes(args, slug, limit) ==
    IF SourceBySlug(slug) # {} /\ slug \in Scrapers
    THEN <<[slug |-> slug, args |-> args, opts |-> RunSourceOptions(limit)]>>
    ELSE <<>>

\* The Scrape calls of RunAll for job args: RunSource(ctx, source.Slug, 0)
\* for the active sources from position k on.
RECURSIVE RunAllScrapes(_, _)
RunAllScrapes(args, k) ==
    IF k > Len(ListActive) THEN <<>>
    ELSE RunSourceScrapes(args, ListActive[k].Slug, 0) \o RunAllScrapes(args, k + 1)

InitRefresh ==
    /\ listings = {}
    /\ scrape_jobs = {}
    /\ clock = 0
    /\ hist = <<>>
    /\ pc = [w \in Runs |-> "idle"]
    /\ loc = [w \in Runs |-> RefreshJob("")]
    /\ chans = <<>>
    /\ producer = NULL
    /\ ctxDone = FALSE
    /\ audit = 0

\* queueScrapeJob(ctx, sourceSlug) of an accepted on-demand trigger.
RefreshInsert(slug) ==
    /\ audit < MaxJobs
    /\ chans' = Append(chans, RefreshJob(slug))
    /\ audit' = audit + 1
    /\ UNCHANGED <<listings, scrape_jobs, clock, hist, pc, loc, producer, ctxDone>>

\* `jobs add --source slug --limit limit`.
JobsAdd(slug, limit) ==
    /\ audit < MaxJobs
    /\ chans' = Append(chans, AddedJob(slug, limit))
    /\ audit' = audit + 1
    /\ UNCHANGED <<listings, scrape_jobs, clock, hist, pc, loc, producer, ctxDone>>

\* river hands the oldest job to a free worker.
RiverFetch(w) ==
    /\ pc[w] = "idle"
    /\ chans # <<>>
    /\ loc' = [loc EXCEPT ![w] = Head(chans)]
    /\ chans' = Tail(chans)
    /\ pc' = [pc EXCEPT ![w] = "work"]
    /\ UNCHANGED <<listings, scrape_jobs, clock, hist, producer, ctxDone, audit>>

\* ScrapeJobWorker.Work: GetBySlug, then
\* w.engine.RunSource(ctx, args.SourceSlug, args.MaxListings).
RefreshScrapeWork(w) ==
    /\ pc[w] = "work"
    /\ loc[w].kind = "scrape"
    /\ hist' = hist \o (IF SourceBySlug(loc[w].SourceSlug) = {} THEN <<>>
                        ELSE RunSourceScrapes(loc[w], loc[w].SourceSlug,
                                              loc[w].MaxListings))
    /\ pc' = [pc EXCEPT ![w] = "idle"]
    /\ UNCHANGED <<listings, scrape_jobs, clock, loc, chans, producer, ctxDone,
                   audit>>

\* ScrapeAllJobWorker.Work: w.engine.RunAll(ctx).
RefreshAllWork(w) ==
    /\ pc[w] = "work"
    /\ loc[w].kind = "scrape_all"
    /\ hist' = hist \o RunAllScrapes(loc[w], 1)
    /\ pc' = [pc EXCEPT ![w] = "idle"]
    /\ UNCHANGED <<listings, scrape_jobs, clock, loc, chans, producer, ctxDone,
                   audit>>

NextRefresh ==
    \/ \E slug \in Slugs \cup {""} : RefreshInsert(slug)
    \/ \E slug \in Slugs \cup {""}, limit \in JobLimits : JobsAdd(slug, limit)
    \/ \E w \in Runs : RiverFetch(w)
    \/ \E w \in Runs : RefreshScrapeWork(w)
    \/ \E w \in Runs : RefreshAllWork(w)

SpecRefresh == InitRefresh /\ [][NextRefresh]_vars

(***************************************************************************)
(* Properties of the options of a queued run.                              *)
(***************************************************************************)
\* C35: the scraper of a scrape-one-source job receives the job's
\* full-vs-incremental flag and its max-listings value in its options; for
\* an on-demand refresh of one source the flag is false (incremental).
C35_JobOptionsReachScraper ==
    \A k \in 1 .. Len(hist) :
        hist[k].args.kind = "scrape" =>
            /\ hist[k].opts.FullScrape = hist[k].args.FullScrape
            /\ hist[k].opts.MaxListings = hist[k].args.MaxListings

(***************************************************************************)
(* Properties of the counters of a run.                                    *)
(***************************************************************************)
\* C36: when RunSource leaves its loop to finalize the job, the found it
\* records equals the number of listings the scraper sent on the listing
\* stream (all of them received by then), whether or not their Upserts
\* succeeded, and equals new + updated.
C36_FoundCountsReceived ==
    [][\A r \in Runs :
          (pc[r] = "rs_loop" /\ pc'[r] \notin {"rs_loop", "rs_upsert"}) =>
             /\ chans[r].listings = <<>>
             /\ loc'[r].job.ListingsFound = producer[r].count
             /\ loc'[r].job.ListingsFound =
                   loc'[r].job.ListingsNew + loc'[r].job.ListingsUpdated]_vars

\* C36 witness: a run was finalized with found = 2 although one of its two
\* Upserts failed.
C36_Witness ==
    \E r \in Runs :
        /\ RunSourceReturned(r)
        /\ loc[r].upsertFailed
        /\ loc[r].job.Status = "completed"
        /\ loc[r].job.ListingsFound = 2
        /\ producer[r].count = 2

(***************************************************************************)
(* Properties of overlapping runs.                                         *)
(***************************************************************************)
\* C37: the last_seen_at of a stored row never decreases, also when two
\* runs of the same source overlap and their Upserts for one key execute in
\* the opposite order to the order of their observation stamps.
C37_LastSeenNeverDecreases ==
    [][\A row \in listings : \A after \in listings' :
          (after.source_id = row.source_id /\ after.external_id = row.external_id)
             => after.last_seen_at >= row.last_seen_at]_vars

(***************************************************************************)
(* SpecDrain: one RunSource run and its scraper, from the Scrape call to   *)
(* the return.  The scraper closes its two streams in the order of the     *)
(* repository's scrapers (errors, then listings) or in the other order.    *)
(* FairSpecDrain adds the scheduling: the goroutine runs its deferred      *)
(* closes, a database call returns, and the select of the loop, which      *)
(* picks among its ready cases at random, takes a case that stays ready.   *)
(***************************************************************************)
InitDrain ==
    /\ listings = {}
    /\ scrape_jobs = {}
    /\ clock = 1
    /\ hist = <<>>
    /\ pc = [r \in Runs |-> IF r = 1 THEN "rs_create" ELSE "idle"]
    /\ loc = [r \in Runs |->
          IF r = 1
          THEN [IdleLoc EXCEPT !.kind = "direct", !.slug = "bizbuysell",
                               !.source = Sources[1].ID]
          ELSE IdleLoc]
    /\ chans = [r \in Runs |-> EmptyChans]
    /\ producer = [r \in Runs |-> IdleProducer]
    /\ ctxDone = [r \in Runs |-> FALSE]
    /\ audit = [NoAudit EXCEPT !.invocations = MaxInvocations]

\* A scraper whose goroutine closes the listing stream first.
DrainCloseListings(r) ==
    /\ producer[r].pc \in {"crawl", "failed"}
    /\ chans' = [chans EXCEPT ![r].listingsClosed = TRUE]
    /\ producer' = [producer EXCEPT ![r] = [@ EXCEPT !.pc = "closingErrors"]]
    /\ UNCHANGED <<listings, scrape_jobs, clock, hist, pc, loc, ctxDone, audit>>

\* ... and the error stream last.
DrainCloseErrors(r) ==
    /\ producer[r].pc = "closingErrors"
    /\ chans' = [chans EXCEPT ![r].errorsClosed = TRUE]
    /\ producer' = [producer EXCEPT ![r] = [@ EXCEPT !.pc = "done"]]
    /\ UNCHANGED <<listings, scrape_jobs, clock, hist, pc, loc, ctxDone, audit>>

NextDrain ==
    \/ Tick
    \/ RunSourceCreateJob(1)
    \/ RunSourceReceive(1)
    \/ RunSourceUpsert(1)
    \/ RunSourceReceiveError(1)
    \/ RunSourceFinalize(1)
    \/ ScrapeEmit(1)
    \/ ScrapeRequestError(1)
    \/ ScrapeFatal(1)
    \/ ScrapeCloseErrors(1)
    \/ ScrapeCloseListings(1)
    \/ DrainCloseListings(1)
    \/ DrainCloseErrors(1)

SpecDrain == InitDrain /\ [][NextDrain]_vars

FairSpecDrain ==
    /\ SpecDrain
    /\ WF_vars(RunSourceReceive(1))
    /\ WF_vars(RunSourceUpsert(1))
    /\ WF_vars(RunSourceFinalize(1))
    /\ WF_vars(ScrapeCloseListings(1))
    /\ WF_vars(DrainCloseErrors(1))

(***************************************************************************)
(* Properties of the end of a run.                                         *)
(***************************************************************************)
\* C38: once the scraper has closed its listing stream RunSource finalizes
\* the job and returns, in either order of the two closes and whatever is
\* still buffered; and a run whose error stream has been closed returns
\* too, once the listing stream is closed after it.
C38_RunSourceTerminates ==
    /\ chans[1].listingsClosed ~> (RunSourceReturned(1) /\ loc[1].job.Status = "completed")
    /\ (chans[1].errorsClosed /\ producer[1].pc = "closing") ~> RunSourceReturned(1)

\* C38 witness: the run has returned after the error stream was closed
\* first, with both listings received and an error still buffered.
C38_Witness ==
    /\ RunSourceReturned(1)
    /\ producer[1].pc = "done"
    /\ chans[1].errorsClosed
    /\ chans[1].errors # <<>>
    /\ loc[1].job.ListingsFound = MaxEmit

(***************************************************************************)
(* Properties of a trigger whose job could not be queued.                  *)
(***************************************************************************)
\* C39: a trigger that passed the limiter and then failed to queue its job
\* was answered with an internal error and queued nothing, and with the
\* limit of one per window the same caller's next trigger inside the window
\* is rejected; the queue holds exactly one job per accepted response.
C39_FailedEnqueueConsumesQuota ==
    /\ Len(chans) =
          Cardinality({k \in 1 .. Len(hist) : hist[k].status = StatusAccepted})
    /\ \A i \in 1 .. Len(hist) : \A j \in 1 .. Len(hist) :
          (/\ i < j
           /\ hist[i].key = hist[j].key
           /\ hist[i].status = StatusInternalServerError
           /\ hist[i].at > hist[j].at - producer.window
           /\ producer.limit = RefreshLimit)
             => /\ hist[i].allowed
                /\ hist[j].status = StatusTooManyRequests

\* C39 witness: a caller's first trigger failed to queue its job, the same
\* caller's second trigger at a later time inside the window was rejected,
\* and no job is queued.
C39_Witness ==
    /\ producer.limit = RefreshLimit
    /\ Len(hist) = 2
    /\ hist[1].key = hist[2].key
    /\ hist[1].status = StatusInternalServerError
    /\ hist[2].status = StatusTooManyRequests
    /\ hist[2].at > hist[1].at
    /\ chans = <<>>

====
